---- MODULE Spec2Model ----
(***************************************************************************)
(* Model of the two coordinating components of llamacpp-server:            *)
(*   - modelManager        (internal/modelmanagement/model_manager.go)     *)
(*   - predictionsManager  (internal/grpcserver, predictions manager file) *)
(*                                                                         *)
(* Every critical section of the Go code (a function body that runs        *)
(* between Lock and the deferred Unlock of m.Mx or state.Mx) is one        *)
(* action.  state.Mx is only ever taken as the innermost lock, so a        *)
(* section under m.Mx that calls into a section under state.Mx is one      *)
(* action as well.  Everything that runs with no lock held (the loader     *)
(* call, Wg.Wait, the predict function) is a step of its own.              *)
(***************************************************************************)
EXTENDS Integers, Sequences, FiniteSets, TLC

\* ---- bounds ----------------------------------------------------------
NumKeys == 2          \* distinct model paths
NumCallers == 2       \* goroutines that call LoadModel / GetModel
MaxCalls == 3         \* LoadModel / GetModel calls issued in all
NumStoppers == 2      \* goroutines that call modelManager.Stop
LiveCalls == 3        \* LoadModel / GetModel calls issued in all, in the behaviours checked for liveness
NumPredictors == 3    \* goroutines that call predictionsManager.Predict
MaxPredicts == 4      \* Predict calls issued in all
NumPStoppers == 2     \* goroutines that call predictionsManager.Stop
NumSinks == 2         \* progress sinks that register on the entry whose broadcasts are followed
MaxEmits == 4         \* progress values the loader emits, in the behaviours with free values
SrvCalls == 2         \* LoadModel / GetModel calls issued in all, in the behaviours of the whole server
SrvPredicts == 1      \* Predict calls issued in all, in the behaviours of the whole server
MaxLinDen == 120      \* evenly spaced sequences 0/d, 1/d, .., d/d are emitted for every d up to this
NCtx == 14            \* context.NCells(): cells of the context predictCmd.Do creates (4096 in the code)
MaxPrompt == 5        \* tokens of the longest prompt
MaxBudget == 3        \* largest max_tokens of a request that fits the context
NumLockers == 2       \* goroutines that call the model manager, in the behaviours at the grain of its mutexes
MaxLockCalls == 3     \* calls those goroutines begin in all
MaxDepth == 2         \* frames of a goroutine: a call and one call made by a sink its loader invokes
NumMonStoppers == 3   \* goroutines that call Process.Stop
MaxStarts == 4        \* calls of command.start after which the retry timer does not fire and the child does not exit by itself

Paths == 1..NumKeys
Callers == 1..NumCallers
Stoppers == 1..NumStoppers
Predictors == 1..NumPredictors
PStoppers == 1..NumPStoppers
Sinks == 1..NumSinks

\* ---- values ----------------------------------------------------------
\* error values: 0 is Go's nil error, a positive number e is the error the
\* loader returned for the construction of entry e.
NoErr == 0
ErrModelManagerClosed == -1
ErrModelNotFound == -2
ErrPredictionsManagerClosed == -3

\* interface{} model values: id 0 is Go's nil, a positive id e is the model
\* the loader returned for the construction of entry e; destroyable tells
\* whether its dynamic type implements DestroyableModel.
NilModel == [id |-> 0, destroyable |-> FALSE]
NoState == 0
\* (nil, nil)
NoResult == [model |-> NilModel, err |-> NoErr]

VARIABLES
    \* --- modelManager ---
    ModelStates,   \* m.ModelStates: path -> entry (index into heap), NoState if unmapped
    Closed,        \* m.Closed
    heap,          \* every *ModelState ever allocated, by allocation order
    pc,            \* position of each LoadModel/GetModel goroutine
    path,          \* argument `path` of the call in progress
    sink,          \* argument `progress` of the call in progress: every call brings a sink of its own
    state,         \* local `state` of LoadModel (entry index)
    last,          \* history: the call that returned last, with what it returned
    calls,         \* LoadModel / GetModel calls issued so far
    joined,        \* history: entry the call in progress last found still under construction at initiateLoad
    afterStop,     \* history: the call in progress began after some Stop had returned
    stale,         \* history: the entries of its path whose construction had failed when the call in progress began
    hit,           \* history: the mapped entry of its path when the call in progress began, if its construction had succeeded
    spc,           \* position of each Stop goroutine
    modelStates,   \* local `modelStates` of Stop: entries still to visit
    cur,           \* entry the Stop loop is currently at
    captures,      \* history: number of entries this Stop call captured when it flipped m.Closed
    \* --- predictionsManager ---
    closed,        \* m.closed
    wg,            \* m.wg counter
    ppc,           \* position of each Predict goroutine
    plast,         \* history: the Predict call that returned last, with the error it returned
    pcalls,        \* Predict calls issued so far
    pAfterClose,   \* history: the Predict call in progress began after the closed flag was set
    flips,         \* history: number of times m.closed was assigned
    pspc,          \* position of each predictionsManager.Stop goroutine
    \* --- progress broadcast of one ModelState under construction ---
    den,             \* the float32 progress values of the behaviour are the fractions n/den, kept as n
    stProgresses,    \* state.Progresses
    lastIntProgress, \* variable captured by the closure broadcastingProgressFunc returns
    bpc,             \* position of the loader: "loader", "deliver" (inside the closure's range loop), "done"
    progress,        \* argument `progress` of the closure call in progress
    progresses,      \* local `progresses` of the closure: sinks of the copy not called yet
    emits,           \* history: every value the loader emitted, whether it passed the throttle, and the copy taken
    received,        \* history: the values each sink was called with, in order
    regAt,           \* history: number of values emitted when the sink was registered, -1 before
    idx,             \* index of the next value of an evenly spaced sequence
    \* --- one LLMServer.Predict request and its predictCmd.Do ---
    req,              \* predictRequest
    args,             \* args of Do, as BuildPredictCommandArgs built them and Do adjusts them
    dpc,              \* position of the goroutine serving the request
    chain,            \* samplerChain: the samplers added so far, in order
    inputTokensCount, \* len(tokens) of the tokenized prompt
    nUsed,            \* context.NCellsUsed()
    nBatch,           \* batch.NTokens()
    generatedTokens,  \* local generatedTokens
    response,         \* local response: the pieces appended so far
    result,           \* what Do (or Predict, when it skips generation) returned
    sent,             \* history: the pieces the streaming sink accepted, in order
    samples,          \* history: sampler.Sample calls made; the k-th call returns token k, whose piece is k
    decodes,          \* history: context.Decode calls made
    sinkCalls,        \* history: calls of the streaming sink made
    sinkTokens,       \* history: the argument `tokens` of the calls the streaming sink accepted, in order
    eogAt,            \* history: index of the sampled token the vocabulary last reported as end-of-generation, 0 if none
    exhausted,        \* history: how the context ran out of capacity, "none" if it did not
    failures,         \* history: the calls that failed while the request was served
    \* --- progress callbacks of the loaders of the model manager ---
    lateSinks,        \* history: the sinks that were invoked after the LoadModel call that brought them had returned
    \* --- the model manager at the grain of its mutexes ---
    mx,               \* m.Mx: the goroutine that holds it, 0 if free
    lkClosed,         \* m.Closed
    lkStates,         \* m.ModelStates: path -> entry (index into lkHeap), NoState if unmapped
    lkHeap,           \* every *ModelState allocated: its Mx (holder, 0 if free), Model, Err, Wg, number of sinks
    stack,            \* call stack of each goroutine: a sink invoked by a loader may call the manager again
    lkCalls,          \* calls goroutines have begun, not counting those made by sinks
    \* --- the monitor of the child process ---
    ctxDone,          \* l.ctx is done: l.cancel() has been called
    monWg,            \* l.wg
    lpc,              \* position of the goroutine of loop
    child,            \* the child process of the current iteration: "none", "running", "exited"
    reader,           \* the goroutine of the output reader of the current iteration: "none", "reading", "done"
    starts,           \* calls of l.command.start made
    mspc,             \* position of each goroutine that calls Process.Stop
    cancelledAt,      \* history: position of the loop when the context was cancelled
    startedAfterStop  \* history: a child was started after a Stop call had returned

mmVars == <<ModelStates, Closed, heap, pc, path, sink, state, last, calls,
            joined, afterStop, stale, hit, spc, modelStates, cur, captures>>
pmVars == <<closed, wg, ppc, plast, pcalls, pAfterClose, flips, pspc>>
bcVars == <<den, stProgresses, lastIntProgress, bpc, progress, progresses, emits, received,
            regAt, idx>>
doVars == <<req, args, dpc, chain, inputTokensCount, nUsed, nBatch, generatedTokens, response,
            result, sent, samples, decodes, sinkCalls, sinkTokens, eogAt, exhausted, failures>>
cbVars == <<lateSinks>>
lkVars == <<mx, lkClosed, lkStates, lkHeap, stack, lkCalls>>
monVars == <<ctxDone, monWg, lpc, child, reader, starts, mspc, cancelledAt, startedAfterStop>>
vars == <<mmVars, pmVars, bcVars, doVars, cbVars, lkVars, monVars>>

\* ======================================================================
\* modelManager
\* ======================================================================

\* &ModelState{} plus Wg.Add(1); key, out, destroys and destroyFailed are
\* history fields: the path the entry was created for, what the loader
\* returned to the constructing caller ("none" while it runs, see Returned),
\* the number of Destroy calls made on its model, and whether Destroy
\* returned an error.
NewModelState(k) ==
    [Model |-> NilModel, Err |-> NoErr, Progresses |-> <<>>, Wg |-> 1,
     key |-> k, out |-> "none", destroys |-> 0, destroyFailed |-> FALSE]

\* history value before any call has returned
NoCall == [op |-> "none", path |-> 0, res |-> NoResult, joined |-> NoState, afterStop |-> FALSE,
           stale |-> {}, hit |-> NoState]

\* history value of a Stop call that has not flipped m.Closed
NoCapture == -1

MMInit ==
    /\ ModelStates = [k \in Paths |-> NoState]
    /\ Closed = FALSE
    /\ heap = <<>>
    /\ pc = [t \in Callers |-> "idle"]
    /\ path = [t \in Callers |-> 0]
    /\ sink = [t \in Callers |-> 0]
    /\ state = [t \in Callers |-> NoState]
    /\ last = NoCall
    /\ calls = 0
    /\ joined = [t \in Callers |-> NoState]
    /\ afterStop = [t \in Callers |-> FALSE]
    /\ stale = [t \in Callers |-> {}]
    /\ hit = [t \in Callers |-> NoState]
    /\ spc = [s \in Stoppers |-> "idle"]
    /\ modelStates = [s \in Stoppers |-> {}]
    /\ cur = [s \in Stoppers |-> NoState]
    /\ captures = [s \in Stoppers |-> NoCapture]

\* LoadModel that calls the loader inside the critical section of m.Mx
MxHeldByLoader_DuringLoad == \E t \in Callers : pc[t] = "loading"

\* m.Mx is held across m.LoadModelFunc by no goroutine: LoadModel calls the
\* loader after initiateLoad has returned and unlocked, so between two
\* critical sections the lock is free
MxHeldByLoader == FALSE

\* the entry's construction has not stored its result yet
InFlight(e) == heap[e].out = "none"

SomeStopReturned == \E s \in Stoppers : spc[s] = "returned"

\* getModel that does not look at the stored error
getModel_IgnoresErr(e) == [model |-> heap[e].Model, err |-> NoErr]

\* ModelState.getModel
getModel(e) ==
    IF heap[e].Err # NoErr
      THEN [model |-> NilModel, err |-> heap[e].Err]
      ELSE [model |-> heap[e].Model, err |-> NoErr]

\* initiateLoad that never finds the entry another caller created
HasState_Never(k) == FALSE

\* `state, ok := m.ModelStates[path]`
HasState(k) == ModelStates[k] # NoState

\* the LoadModel call of goroutine t returns r
Finish(t, r) ==
    /\ pc' = [pc EXCEPT ![t] = "idle"]
    /\ last' = [op |-> "LoadModel", path |-> path[t], res |-> r,
                joined |-> joined[t], afterStop |-> afterStop[t], stale |-> stale[t],
                hit |-> hit[t]]
    /\ path' = [path EXCEPT ![t] = 0]
    /\ sink' = [sink EXCEPT ![t] = 0]
    /\ state' = [state EXCEPT ![t] = NoState]
    /\ joined' = [joined EXCEPT ![t] = NoState]
    /\ afterStop' = [afterStop EXCEPT ![t] = FALSE]
    /\ stale' = [stale EXCEPT ![t] = {}]
    /\ hit' = [hit EXCEPT ![t] = NoState]

\* Nothing of the state refers to a goroutine that is not inside a call, so
\* idle goroutines are interchangeable: the next call is made by the idle
\* goroutine of least index.
NextIdle(t) == pc[t] = "idle" /\ \A u \in Callers : u < t => pc[u] # "idle"

\* Paths that no entry, no call in progress and no returned result refers to
\* are interchangeable: a call names a path in use or the least unused one.
UsedPaths ==
    ({heap[e].key : e \in DOMAIN heap} \cup {path[t] : t \in Callers} \cup {last.path}) \ {0}
CallPaths == {k \in Paths : k \in UsedPaths \/ \A j \in Paths \ UsedPaths : k <= j}

\* the entries created for path k whose construction has stored an error
FailedEntries(k) == {e \in DOMAIN heap : heap[e].key = k /\ heap[e].out = "err"}

\* the mapped entry of path k if its construction has stored a success
CachedEntry(k) ==
    IF ModelStates[k] # NoState /\ heap[ModelStates[k]].out \in {"destroyable", "plain", "nil"}
      THEN ModelStates[k] ELSE NoState

\* a goroutine enters LoadModel(path, progress)
LoadModel(t) ==
    /\ NextIdle(t)
    /\ calls < MaxCalls
    /\ \E k \in CallPaths :
         /\ path' = [path EXCEPT ![t] = k]
         /\ stale' = [stale EXCEPT ![t] = FailedEntries(k)]
         /\ hit' = [hit EXCEPT ![t] = CachedEntry(k)]
    /\ sink' = [sink EXCEPT ![t] = calls + 1]
    /\ calls' = calls + 1
    /\ pc' = [pc EXCEPT ![t] = "initiateLoad"]
    /\ afterStop' = [afterStop EXCEPT ![t] = SomeStopReturned]
    /\ UNCHANGED <<ModelStates, Closed, heap, state, last, joined, spc, modelStates, cur, captures>>
    /\ UNCHANGED <<pmVars, bcVars, doVars, cbVars, lkVars, monVars>>

\* initiateLoad without the test of m.Closed
LoadRefused_Never(c) == FALSE

\* `if m.Closed` of initiateLoad
LoadRefused(c) == c

\* modelManager.initiateLoad, one critical section of m.Mx
initiateLoad(t) ==
    /\ pc[t] = "initiateLoad"
    /\ ~MxHeldByLoader
    /\ IF LoadRefused(Closed)
         THEN /\ Finish(t, [model |-> NilModel, err |-> ErrModelManagerClosed])
              /\ UNCHANGED <<ModelStates, heap>>
         ELSE IF ~HasState(path[t])
           THEN LET e == Len(heap) + 1 IN
                /\ heap' = Append(heap, [NewModelState(path[t]) EXCEPT !.Progresses = <<sink[t]>>])
                /\ ModelStates' = [ModelStates EXCEPT ![path[t]] = e]
                /\ state' = [state EXCEPT ![t] = e]
                /\ pc' = [pc EXCEPT ![t] = "loading"]
                /\ UNCHANGED <<last, path, sink, joined, afterStop, stale, hit>>
           ELSE LET e == ModelStates[path[t]] IN
                /\ heap' = [heap EXCEPT ![e].Progresses = Append(@, sink[t])]
                /\ state' = [state EXCEPT ![t] = e]
                /\ joined' = [joined EXCEPT ![t] = IF InFlight(e) THEN e ELSE @]
                /\ pc' = [pc EXCEPT ![t] = "check"]
                /\ UNCHANGED <<ModelStates, last, path, sink, afterStop, stale, hit>>
    /\ UNCHANGED <<Closed, calls, spc, modelStates, cur, captures>>
    /\ UNCHANGED <<pmVars, bcVars, doVars, cbVars, lkVars, monVars>>

\* LoadModel that returns whatever the entry holds, a cached error included
Usable_CachedError(r) == TRUE

\* LoadModel that takes every entry it finds for a failed one
Usable_Never(r) == FALSE

\* `if model != nil || (err == nil)` of LoadModel
Usable(r) == r.model # NilModel \/ r.err = NoErr

\* LoadModel, the `if ok` branch up to its return: state.getModel() and the test on its result
LoadModelCheck(t) ==
    /\ pc[t] = "check"
    /\ LET r == getModel(state[t]) IN
         IF Usable(r)
           THEN Finish(t, r)
           ELSE /\ pc' = [pc EXCEPT ![t] = "removeState"]
                /\ UNCHANGED <<last, path, sink, state, joined, afterStop, stale, hit>>
    /\ UNCHANGED <<ModelStates, Closed, heap, calls, spc, modelStates, cur, captures>>
    /\ UNCHANGED <<pmVars, bcVars, doVars, cbVars, lkVars, monVars>>

\* removeState without the identity test on the mapped entry
ShouldDelete_Always(current, st) == TRUE

\* `if currentState == state` of removeState
ShouldDelete(current, st) == current = st

\* modelManager.removeState, one critical section of m.Mx
removeState(t) ==
    /\ pc[t] = "removeState"
    /\ ~MxHeldByLoader
    /\ ModelStates' = IF ShouldDelete(ModelStates[path[t]], state[t])
                        THEN [ModelStates EXCEPT ![path[t]] = NoState]
                        ELSE ModelStates
    /\ pc' = [pc EXCEPT ![t] = "wait"]
    /\ UNCHANGED <<Closed, heap, path, sink, state, last, calls, joined, afterStop, stale, hit,
                   spc, modelStates, cur, captures>>
    /\ UNCHANGED <<pmVars, bcVars, doVars, cbVars, lkVars, monVars>>

\* LoadModel: state.Wg.Wait() followed by the recursive m.LoadModel(path, progress)
LoadModelWait(t) ==
    /\ pc[t] = "wait"
    /\ heap[state[t]].Wg = 0
    /\ pc' = [pc EXCEPT ![t] = "initiateLoad"]
    /\ UNCHANGED <<ModelStates, Closed, heap, path, sink, state, last, calls, joined, afterStop, stale, hit,
                   spc, modelStates, cur, captures>>
    /\ UNCHANGED <<pmVars, bcVars, doVars, cbVars, lkVars, monVars>>

\* what a LoadModelFunc returns: a model with the Destroy capability (as the
\* loader of the server does), a model without it, nothing and no error (the
\* loaders of the tests), or an error
LoaderOutcomes == {"destroyable", "plain", "nil", "err"}

\* the locals `model, err` of the constructing caller of entry e once the
\* loader has returned
Returned(e) ==
    [model |-> IF heap[e].out \in {"destroyable", "plain"}
                 THEN [id |-> e, destroyable |-> heap[e].out = "destroyable"]
                 ELSE NilModel,
     err |-> IF heap[e].out = "err" THEN e ELSE NoErr]

\* LoadModel: m.LoadModelFunc returns (it was called with no lock held) and
\* state.saveLoaded(model, err) stores what it returned
saveLoaded(t) ==
    /\ pc[t] = "loading"
    /\ \E o \in LoaderOutcomes :
         heap' = [heap EXCEPT ![state[t]].Model =
                                  IF o \in {"destroyable", "plain"}
                                    THEN [id |-> state[t], destroyable |-> o = "destroyable"]
                                    ELSE NilModel,
                              ![state[t]].Err = IF o = "err" THEN state[t] ELSE NoErr,
                              ![state[t]].Progresses = <<>>,
                              ![state[t]].out = o]
    /\ pc' = [pc EXCEPT ![t] = "return"]
    /\ UNCHANGED <<ModelStates, Closed, path, sink, state, last, calls, joined, afterStop, stale, hit,
                   spc, modelStates, cur, captures>>
    /\ UNCHANGED <<pmVars, bcVars, doVars, cbVars, lkVars, monVars>>

\* LoadModel that returns without signalling completion
WgDone_Missing(n) == n

\* state.Wg.Done()
WgDone(n) == n - 1

\* LoadModel: `return model, err` with the deferred state.Wg.Done()
LoadModelReturn(t) ==
    /\ pc[t] = "return"
    /\ heap' = [heap EXCEPT ![state[t]].Wg = WgDone(@)]
    /\ Finish(t, Returned(state[t]))
    /\ UNCHANGED <<ModelStates, Closed, calls, spc, modelStates, cur, captures>>
    /\ UNCHANGED <<pmVars, bcVars, doVars, cbVars, lkVars, monVars>>

\* GetModel without the test of m.Closed
GetModelResult_NoClosedCheck(k) ==
    IF ModelStates[k] = NoState THEN [model |-> NilModel, err |-> ErrModelNotFound]
    ELSE getModel(ModelStates[k])

\* GetModel that reports an entry under construction as missing
GetModelResult_InFlightNotFound(k) ==
    IF Closed THEN [model |-> NilModel, err |-> ErrModelManagerClosed]
    ELSE IF ~HasState(k) \/ InFlight(ModelStates[k]) THEN [model |-> NilModel, err |-> ErrModelNotFound]
    ELSE getModel(ModelStates[k])

\* the result of modelManager.GetModel(k)
GetModelResult(k) ==
    IF Closed THEN [model |-> NilModel, err |-> ErrModelManagerClosed]
    ELSE IF ~HasState(k) THEN [model |-> NilModel, err |-> ErrModelNotFound]
    ELSE getModel(ModelStates[k])

\* modelManager.GetModel, one critical section of m.Mx
GetModel(t) ==
    /\ NextIdle(t)
    /\ ~MxHeldByLoader
    /\ calls < MaxCalls
    /\ \E k \in CallPaths :
         last' = [op |-> "GetModel", path |-> k, res |-> GetModelResult(k),
                  joined |-> NoState, afterStop |-> SomeStopReturned, stale |-> {},
                  hit |-> NoState]
    /\ calls' = calls + 1
    /\ UNCHANGED <<ModelStates, Closed, heap, pc, path, sink, state, joined, afterStop, stale, hit,
                   spc, modelStates, cur, captures>>
    /\ UNCHANGED <<pmVars, bcVars, doVars, cbVars, lkVars, monVars>>

\* cancelLoads that skips the entries still under construction
CapturedStates_Completed == {ModelStates[k] : k \in {j \in Paths : ModelStates[j] # NoState /\ ~InFlight(ModelStates[j])}}

\* the entries cancelLoads copies out of m.ModelStates
CapturedStates == {ModelStates[k] : k \in Paths} \ {NoState}

\* cancelLoads without the early return of a second call
AlreadyClosed_Never(c) == FALSE

\* `if m.Closed { return nil }` of cancelLoads
AlreadyClosed(c) == c

\* position of Stop once the entries in `rest` are still to be visited
StopAt(rest) == IF rest = {} THEN "returned" ELSE "loop"

\* a goroutine enters Stop: modelManager.cancelLoads, one critical section of
\* m.Mx; Stop returns at once when the slice it got is empty
cancelLoads(s) ==
    /\ spc[s] = "idle"
    /\ ~MxHeldByLoader
    /\ \A u \in Stoppers : u < s => spc[u] # "idle"
    /\ IF AlreadyClosed(Closed)
         THEN /\ modelStates' = [modelStates EXCEPT ![s] = {}]
              /\ spc' = [spc EXCEPT ![s] = "returned"]
              /\ UNCHANGED <<Closed, captures>>
         ELSE /\ Closed' = TRUE
              /\ modelStates' = [modelStates EXCEPT ![s] = CapturedStates]
              /\ captures' = [captures EXCEPT ![s] = Cardinality(CapturedStates)]
              /\ spc' = [spc EXCEPT ![s] = StopAt(CapturedStates)]
    /\ UNCHANGED <<ModelStates, heap, pc, path, sink, state, last, calls, joined, afterStop, stale, hit, cur>>
    /\ UNCHANGED <<pmVars, bcVars, doVars, cbVars, lkVars, monVars>>

\* Stop without state.Wg.Wait()
WaitReturns_NoWait(e) == TRUE

\* state.Wg.Wait() returns once the counter of the entry is zero
WaitReturns(e) == heap[e].Wg = 0

\* Stop: the next `state` of `for _, state := range modelStates` and its
\* state.Wg.Wait().  The slice was filled by a map iteration, whose order Go
\* leaves arbitrary, so the next entry is any entry not yet visited.
StopWait(s) ==
    /\ spc[s] = "loop"
    /\ \E e \in modelStates[s] :
         /\ WaitReturns(e)
         /\ cur' = [cur EXCEPT ![s] = e]
         /\ modelStates' = [modelStates EXCEPT ![s] = @ \ {e}]
    /\ spc' = [spc EXCEPT ![s] = "free"]
    /\ UNCHANGED <<ModelStates, Closed, heap, pc, path, sink, state, last, calls, joined,
                   afterStop, stale, hit, captures>>
    /\ UNCHANGED <<pmVars, bcVars, doVars, cbVars, lkVars, monVars>>

\* free that keeps a model whose Destroy returned an error
Cleared_UnlessDestroyFailed(m, failed) == IF failed THEN m ELSE NilModel

\* `state.Model = nil`: "regardless of whether it was Destroyable or if Destroy failed"
Cleared(m, failed) == NilModel

\* Stop: state.free(), one critical section of state.Mx: a model with the
\* Destroy capability is destroyed, which may fail, the failure being logged;
\* Stop returns after the last entry
free(s) ==
    /\ spc[s] = "free"
    /\ LET e == cur[s]
           destroyable == heap[e].Model # NilModel /\ heap[e].Model.destroyable
       IN \E failed \in (IF destroyable THEN BOOLEAN ELSE {FALSE}) :
            heap' = [heap EXCEPT ![e].Model = Cleared(@, failed),
                                 ![e].Err = NoErr,
                                 ![e].Progresses = <<>>,
                                 ![e].destroys = IF destroyable THEN @ + 1 ELSE @,
                                 ![e].destroyFailed = failed]
    /\ spc' = [spc EXCEPT ![s] = StopAt(modelStates[s])]
    /\ cur' = [cur EXCEPT ![s] = NoState]
    /\ UNCHANGED <<ModelStates, Closed, pc, path, sink, state, last, calls, joined,
                   afterStop, stale, hit, modelStates, captures>>
    /\ UNCHANGED <<pmVars, bcVars, doVars, cbVars, lkVars, monVars>>

\* ======================================================================
\* predictionsManager
\* ======================================================================

\* history value before any Predict call has returned
NoPredict == [err |-> NoErr, afterClose |-> FALSE, ran |-> FALSE]

PMInit ==
    /\ closed = FALSE
    /\ wg = 0
    /\ ppc = [p \in Predictors |-> "idle"]
    /\ plast = NoPredict
    /\ pcalls = 0
    /\ pAfterClose = [p \in Predictors |-> FALSE]
    /\ flips = 0
    /\ pspc = [s \in PStoppers |-> "idle"]

\* a goroutine enters Predict(model, prompt, options, stream)
Predict(p) ==
    /\ ppc[p] = "idle"
    /\ \A u \in Predictors : u < p => ppc[u] # "idle"
    /\ pcalls < MaxPredicts
    /\ pcalls' = pcalls + 1
    /\ ppc' = [ppc EXCEPT ![p] = "initiatePrediction"]
    /\ pAfterClose' = [pAfterClose EXCEPT ![p] = closed]
    /\ UNCHANGED <<closed, wg, plast, flips, pspc>>
    /\ UNCHANGED <<mmVars, bcVars, doVars, cbVars, lkVars, monVars>>

\* initiatePrediction without the test of m.closed
Rejects_Never(c) == FALSE

\* `if m.closed` of initiatePrediction
Rejects(c) == c

\* predictionsManager.initiatePrediction, one critical section of m.mx; when
\* it admits the call, Predict goes on to invoke m.predictFunc
initiatePrediction(p) ==
    /\ ppc[p] = "initiatePrediction"
    /\ IF Rejects(closed)
         THEN /\ plast' = [err |-> ErrPredictionsManagerClosed, afterClose |-> pAfterClose[p],
                           ran |-> FALSE]
              /\ ppc' = [ppc EXCEPT ![p] = "idle"]
              /\ pAfterClose' = [pAfterClose EXCEPT ![p] = FALSE]
              /\ UNCHANGED wg
         ELSE /\ wg' = wg + 1
              /\ ppc' = [ppc EXCEPT ![p] = "predictFunc"]
              /\ UNCHANGED <<plast, pAfterClose>>
    /\ UNCHANGED <<closed, pcalls, flips, pspc>>
    /\ UNCHANGED <<mmVars, bcVars, doVars, cbVars, lkVars, monVars>>

\* errors m.predictFunc may return: nil, or an error of the generation (1)
PredictOutcomes == {NoErr, 1}

\* a Predict that releases its slot only when the predict function succeeded
Released_OnSuccessOnly(n, e) == IF e = NoErr THEN n - 1 ELSE n

\* `defer m.wg.Done()`: runs whatever m.predictFunc returned
Released(n, e) == n - 1

\* Predict: m.predictFunc returns and Predict returns what it returned, with
\* the deferred m.wg.Done()
PredictReturn(p) ==
    /\ ppc[p] = "predictFunc"
    /\ \E e \in PredictOutcomes :
         /\ plast' = [err |-> e, afterClose |-> pAfterClose[p], ran |-> TRUE]
         /\ wg' = Released(wg, e)
    /\ ppc' = [ppc EXCEPT ![p] = "idle"]
    /\ pAfterClose' = [pAfterClose EXCEPT ![p] = FALSE]
    /\ UNCHANGED <<closed, pcalls, flips, pspc>>
    /\ UNCHANGED <<mmVars, bcVars, doVars, cbVars, lkVars, monVars>>

\* a goroutine enters predictionsManager.Stop: cancelPredictions, one
\* critical section of m.mx
cancelPredictions(s) ==
    /\ pspc[s] = "idle"
    /\ \A u \in PStoppers : u < s => pspc[u] # "idle"
    /\ IF closed
         THEN UNCHANGED <<closed, flips>>
         ELSE closed' = TRUE /\ flips' = flips + 1
    /\ pspc' = [pspc EXCEPT ![s] = "wait"]
    /\ UNCHANGED <<wg, ppc, plast, pcalls, pAfterClose>>
    /\ UNCHANGED <<mmVars, bcVars, doVars, cbVars, lkVars, monVars>>

\* predictionsManager.Stop without m.wg.Wait()
Drained_NoWait(n) == TRUE

\* m.wg.Wait() returns once the counter is zero
Drained(n) == n = 0

\* predictionsManager.Stop: m.wg.Wait() and return
PStopWait(s) ==
    /\ pspc[s] = "wait"
    /\ Drained(wg)
    /\ pspc' = [pspc EXCEPT ![s] = "returned"]
    /\ UNCHANGED <<closed, wg, ppc, plast, pcalls, pAfterClose, flips>>
    /\ UNCHANGED <<mmVars, bcVars, doVars, cbVars, lkVars, monVars>>

\* ======================================================================
\* progress broadcast (ModelState.addProgress, getProgresses,
\* broadcastingProgressFunc) of one entry while its loader runs
\* ======================================================================

\* denominator of the progress values in the behaviours with free values:
\* n/200 is n half percents
Den == 200

\* values the loader emits there: 0.0, 0.005, 0.01, 0.015, 0.02 and 1.0
Values == {0, 1, 2, 3, 4, Den}

\* denominators of the evenly spaced sequences: every one up to MaxLinDen,
\* and 999 (1000 values)
LinDens == (1..MaxLinDen) \cup {1000 - 1}

NotRegistered == -1

\* the entry right after initiateLoad created it: the constructing caller's
\* sink (sink 1) is registered, the closure has lastIntProgress = 0
BCStart(d) ==
    /\ den = d
    /\ stProgresses = <<1>>
    /\ lastIntProgress = 0
    /\ bpc = "loader"
    /\ progress = 0
    /\ progresses = <<>>
    /\ emits = <<>>
    /\ received = [w \in Sinks |-> <<>>]
    /\ regAt = [w \in Sinks |-> IF w = 1 THEN 0 ELSE NotRegistered]
    /\ idx = 0

BCInit == BCStart(Den)
BCLinInit == \E d \in LinDens : BCStart(d)

\* `progress > 0.0 && progress < 1.0`
Intermediate(v) == v > 0 /\ v < den

\* int(progress * 100.0) that keeps one digit more
IntProgress_PerMille(v) == (v * 1000) \div den

\* `int(progress * 100.0)`: the truncation of 100 * v / den
IntProgress(v) == (v * 100) \div den

\* the closure without the early return
Throttled_Never(v, lastInt) == FALSE

\* the closure returns without broadcasting:
\* `if intProgress < lastIntProgress+1 { return }` inside the range test
Throttled(v, lastInt) == Intermediate(v) /\ IntProgress(v) < lastInt + 1

\* getProgresses that copies the first sink only
getProgresses_FirstOnly(ps) == SubSeq(ps, 1, 1)

\* ModelState.getProgresses: a copy of state.Progresses, taken under state.Mx
getProgresses(ps) == ps

\* ModelState.addProgress, called by initiateLoad for a caller that found the
\* entry while its loader runs
addProgress(w) ==
    /\ bpc # "done"
    /\ regAt[w] = NotRegistered
    \* sinks not yet registered are interchangeable: the least one registers next
    /\ \A u \in Sinks : u < w => regAt[u] # NotRegistered
    /\ stProgresses' = Append(stProgresses, w)
    /\ regAt' = [regAt EXCEPT ![w] = Len(emits)]
    /\ UNCHANGED <<den, lastIntProgress, bpc, progress, progresses, emits, received, idx>>
    /\ UNCHANGED <<mmVars, pmVars, doVars, cbVars, lkVars, monVars>>

\* the loader calls the closure with value v: the throttle, and for a value
\* that passes it getProgresses(); the range loop follows (Deliver)
broadcastingProgressFunc(v) ==
    /\ bpc = "loader"
    /\ IF Throttled(v, lastIntProgress)
         THEN /\ emits' = Append(emits, [v |-> v, passed |-> FALSE, to |-> <<>>])
              /\ UNCHANGED <<lastIntProgress, bpc, progress, progresses>>
         ELSE /\ lastIntProgress' = IF Intermediate(v) THEN IntProgress(v) ELSE lastIntProgress
              /\ progress' = v
              /\ progresses' = getProgresses(stProgresses)
              /\ emits' = Append(emits, [v |-> v, passed |-> TRUE, to |-> getProgresses(stProgresses)])
              /\ bpc' = IF getProgresses(stProgresses) = <<>> THEN "loader" ELSE "deliver"
    /\ UNCHANGED <<den, stProgresses, received, regAt>>
    /\ UNCHANGED <<mmVars, pmVars, doVars, cbVars, lkVars, monVars>>

\* the loader emits any value
Emit(v) ==
    /\ Len(emits) < MaxEmits
    /\ broadcastingProgressFunc(v)
    /\ UNCHANGED idx

\* the loader emits the next value of the evenly spaced sequence
EmitLin ==
    /\ idx <= den
    /\ broadcastingProgressFunc(idx)
    /\ idx' = idx + 1

\* one iteration of `for _, p := range progresses { p(progress) }`
Deliver ==
    /\ bpc = "deliver"
    /\ received' = [received EXCEPT ![Head(progresses)] = Append(@, progress)]
    /\ progresses' = Tail(progresses)
    /\ bpc' = IF Tail(progresses) = <<>> THEN "loader" ELSE "deliver"
    /\ UNCHANGED <<den, stProgresses, lastIntProgress, progress, emits, regAt, idx>>
    /\ UNCHANGED <<mmVars, pmVars, doVars, cbVars, lkVars, monVars>>

\* the loader returns and saveLoaded sets state.Progresses = nil
loaderReturns ==
    /\ bpc = "loader"
    /\ stProgresses' = <<>>
    /\ bpc' = "done"
    /\ UNCHANGED <<den, lastIntProgress, progress, progresses, emits, received, regAt, idx>>
    /\ UNCHANGED <<mmVars, pmVars, doVars, cbVars, lkVars, monVars>>

\* the evenly spaced sequence has been emitted in full when the loader returns
loaderReturnsLin == idx > den /\ loaderReturns

\* ======================================================================
\* LLMServer.Predict and predictCmd.Do
\* ======================================================================

\* float32 parameters are kept in hundredths (1.0 is 100); Unset is an option
\* pointer that is nil
Unset == -1000

\* the fields of a PredictRequest that Predict and Do read
Requests ==
    [MaxTokens : {-1, 0, 1, MaxBudget, NCtx},
     Stream : BOOLEAN,
     Temperature : {-10, 80},
     TopP : {-10, 90, 100},
     TopK : {-1, 40},
     MinP : {Unset, -5},
     RepetitionPenalty : {Unset, 110}]

NoRequest ==
    [MaxTokens |-> 0, Stream |-> FALSE, Temperature |-> 0, TopP |-> 0, TopK |-> 0,
     MinP |-> Unset, RepetitionPenalty |-> Unset]

\* PredictCommandArgs{}
NoArgs == [NPredict |-> 0, Temp |-> 0, TopP |-> 0, TopK |-> 0, MinP |-> 0, RepetitionPenalty |-> 0]

\* `if x < 0 { x = 0 }`
ClampNeg(x) == IF x < 0 THEN 0 ELSE x

BuildPredictCommandArgs(r) ==
    [NPredict |-> ClampNeg(r.MaxTokens),
     Temp |-> ClampNeg(r.Temperature),
     TopP |-> ClampNeg(r.TopP),
     TopK |-> ClampNeg(r.TopK),
     MinP |-> IF r.MinP = Unset THEN 5 ELSE ClampNeg(r.MinP),
     RepetitionPenalty |-> IF r.RepetitionPenalty = Unset THEN 100 ELSE r.RepetitionPenalty]

\* a nil error of Do, and the value of result before anything has returned
DoOk == "nil"
NoDoResult == [text |-> <<>>, err |-> "none"]

DoInit ==
    /\ req = NoRequest
    /\ args = NoArgs
    /\ dpc = "idle"
    /\ chain = <<>>
    /\ inputTokensCount = 0
    /\ nUsed = 0
    /\ nBatch = 0
    /\ generatedTokens = 0
    /\ response = <<>>
    /\ result = NoDoResult
    /\ sent = <<>>
    /\ samples = 0
    /\ decodes = 0
    /\ sinkCalls = 0
    /\ sinkTokens = <<>>
    /\ eogAt = 0
    /\ exhausted = "none"
    /\ failures = {}

loopVars == <<inputTokensCount, nUsed, nBatch, generatedTokens, response, sent, samples,
              decodes, sinkCalls, sinkTokens, eogAt, exhausted>>

\* `return text, err`
DoReturns(text, err) ==
    /\ dpc' = "returned"
    /\ result' = [text |-> text, err |-> err]

\* a call failed and Do returns `"", fmt.Errorf(..)`
DoFails(call) ==
    /\ failures' = failures \cup {call}
    /\ DoReturns(<<>>, call)

\* a call failed and Do logs the failure and goes on
DoSkips(call, next) ==
    /\ failures' = failures \cup {call}
    /\ dpc' = next
    /\ UNCHANGED result

\* LLMServer.Predict up to the call of predictionManager.Predict: a request
\* with max_tokens 0 is answered at once; the model is taken to be loaded
\* (GetModel is modelled with the model manager)
ServerPredict(r) ==
    /\ dpc = "idle"
    /\ req' = r
    /\ IF r.MaxTokens = 0
         THEN /\ DoReturns(<<>>, DoOk)
              /\ UNCHANGED args
         ELSE /\ args' = BuildPredictCommandArgs(r)
              /\ dpc' = "NewContext"
              /\ UNCHANGED result
    /\ UNCHANGED <<chain, failures, loopVars>>
    /\ UNCHANGED <<mmVars, pmVars, bcVars, cbVars, lkVars, monVars>>

\* Do: llamacppbindings.NewContext
DoNewContext ==
    /\ dpc = "NewContext"
    /\ \E ok \in BOOLEAN :
         IF ok THEN dpc' = "NewSamplerChain" /\ UNCHANGED <<result, failures>>
               ELSE DoFails("context")
    /\ UNCHANGED <<req, args, chain, loopVars>>
    /\ UNCHANGED <<mmVars, pmVars, bcVars, cbVars, lkVars, monVars>>

\* Do: llamacppbindings.NewSamplerChain
DoNewSamplerChain ==
    /\ dpc = "NewSamplerChain"
    /\ \E ok \in BOOLEAN :
         IF ok THEN dpc' = "penalties" /\ UNCHANGED <<result, failures>>
               ELSE DoFails("sampler chain")
    /\ UNCHANGED <<req, args, chain, loopVars>>
    /\ UNCHANGED <<mmVars, pmVars, bcVars, cbVars, lkVars, monVars>>

\* the thresholds that enable the stages of the sampler chain
PenaltiesEnabled(a) == a.RepetitionPenalty # 100
TopKEnabled(a) == a.TopK > 0
TopPEnabled(a) == a.TopP > 0 /\ a.TopP < 100
MinPEnabled(a) == a.MinP > 0
TempEnabled(a) == a.Temp > 0

\* a stage whose constructor failing is logged, the stage being left out
AddOptionalSampler(enabled, stage, next) ==
    /\ IF enabled
         THEN \E ok \in BOOLEAN :
                IF ok THEN /\ chain' = Append(chain, stage)
                           /\ dpc' = next
                           /\ UNCHANGED <<result, failures>>
                      ELSE /\ DoSkips(stage, next)
                           /\ UNCHANGED chain
         ELSE /\ dpc' = next
              /\ UNCHANGED <<chain, result, failures>>
    /\ UNCHANGED <<req, args, loopVars>>
    /\ UNCHANGED <<mmVars, pmVars, bcVars, cbVars, lkVars, monVars>>

\* a stage whose constructor failing makes Do return the error
AddRequiredSampler(enabled, stage, next) ==
    /\ IF enabled
         THEN \E ok \in BOOLEAN :
                IF ok THEN /\ chain' = Append(chain, stage)
                           /\ dpc' = next
                           /\ UNCHANGED <<result, failures>>
                      ELSE /\ DoFails(stage)
                           /\ UNCHANGED chain
         ELSE /\ dpc' = next
              /\ UNCHANGED <<chain, result, failures>>
    /\ UNCHANGED <<req, args, loopVars>>
    /\ UNCHANGED <<mmVars, pmVars, bcVars, cbVars, lkVars, monVars>>

\* Do: the six stages, in the order of the code
AddPenaltiesSampler ==
    /\ dpc = "penalties"
    /\ AddOptionalSampler(PenaltiesEnabled(args), "penalties", "top-k")

AddTopKSampler ==
    /\ dpc = "top-k"
    /\ AddOptionalSampler(TopKEnabled(args), "top-k", "top-p")

AddTopPSampler ==
    /\ dpc = "top-p"
    /\ AddOptionalSampler(TopPEnabled(args), "top-p", "min-p")

AddMinPSampler ==
    /\ dpc = "min-p"
    /\ AddRequiredSampler(MinPEnabled(args), "min-p", "temp")

AddTempSampler ==
    /\ dpc = "temp"
    /\ AddRequiredSampler(TempEnabled(args), "temp", "dist")

AddDistSampler ==
    /\ dpc = "dist"
    /\ AddRequiredSampler(TRUE, "dist", "Tokenize")

\* Do: vocab.Tokenize and the validation of the context size, which lowers
\* the budget of a request that does not fit
Tokenize ==
    /\ dpc = "Tokenize"
    /\ \/ /\ DoFails("tokenize")
          /\ UNCHANGED <<args, inputTokensCount, nBatch>>
       \/ \E n \in 1..MaxPrompt :
            /\ inputTokensCount' = n
            /\ LET adjusted == IF n + args.NPredict > NCtx THEN NCtx - n - 10 ELSE args.NPredict IN
                 /\ args' = [args EXCEPT !.NPredict = adjusted]
                 /\ IF adjusted < 0
                      THEN /\ DoReturns(<<>>, "prompt too long for context size")
                           /\ UNCHANGED nBatch
                      ELSE /\ nBatch' = n
                           /\ dpc' = "loop"
                           /\ UNCHANGED result
            /\ UNCHANGED failures
    /\ UNCHANGED <<req, chain, nUsed, generatedTokens, response, sent, samples, decodes,
                   sinkCalls, sinkTokens, eogAt, exhausted>>
    /\ UNCHANGED <<mmVars, pmVars, bcVars, cbVars, lkVars, monVars>>

\* `args.NPredict > 0 && generatedTokens >= args.NPredict`
BudgetReached(nPredict, generated) == nPredict > 0 /\ generated >= nPredict

\* Do: the head of the generation loop down to context.Decode(batch)
Decode ==
    /\ dpc = "loop"
    /\ IF BudgetReached(args.NPredict, generatedTokens)
         THEN /\ DoReturns(response, DoOk)
              /\ UNCHANGED <<nUsed, decodes, exhausted, failures>>
         ELSE IF nUsed + nBatch > NCtx
           THEN /\ exhausted' = "cells"
                /\ DoReturns(<<>>, "context size exceeded")
                /\ UNCHANGED <<nUsed, decodes, failures>>
           ELSE /\ decodes' = decodes + 1
                /\ \/ /\ nUsed' = nUsed + nBatch
                      /\ dpc' = "Sample"
                      /\ UNCHANGED <<result, exhausted, failures>>
                   \/ /\ exhausted' = "kv"
                      /\ DoReturns(response, DoOk)
                      /\ UNCHANGED <<nUsed, failures>>
                   \/ /\ DoFails("decode")
                      /\ UNCHANGED <<nUsed, exhausted>>
    /\ UNCHANGED <<req, args, chain, inputTokensCount, nBatch, generatedTokens, response, sent,
                   samples, sinkCalls, sinkTokens, eogAt>>
    /\ UNCHANGED <<mmVars, pmVars, bcVars, cbVars, lkVars, monVars>>

\* a loop that goes on after an end-of-generation token
EogBreaks_Never(isEog) == FALSE

\* `if vocab.IsEog(nextToken) { break }`
EogBreaks(isEog) == isEog

\* Do: sampler.Sample and vocab.IsEog
Sample ==
    /\ dpc = "Sample"
    /\ samples' = samples + 1
    /\ \E isEog \in BOOLEAN :
         /\ eogAt' = IF isEog THEN samples + 1 ELSE eogAt
         /\ IF EogBreaks(isEog)
              THEN DoReturns(response, DoOk)
              ELSE dpc' = "TokenToPiece" /\ UNCHANGED result
    /\ UNCHANGED <<req, args, chain, inputTokensCount, nUsed, nBatch, generatedTokens, response,
                   sent, decodes, sinkCalls, sinkTokens, exhausted, failures>>
    /\ UNCHANGED <<mmVars, pmVars, bcVars, cbVars, lkVars, monVars>>

\* Do: vocab.TokenToPiece
TokenToPiece ==
    /\ dpc = "TokenToPiece"
    /\ \E ok \in BOOLEAN :
         IF ok THEN dpc' = "stream" /\ UNCHANGED <<result, failures>>
               ELSE DoFails("piece")
    /\ UNCHANGED <<req, args, chain, loopVars>>
    /\ UNCHANGED <<mmVars, pmVars, bcVars, cbVars, lkVars, monVars>>

\* a loop that streams the piece and leaves it out of the response
Appended_Nothing(r, piece) == r

\* `response += piece`
Appended(r, piece) == Append(r, piece)

\* a loop that goes on after the sink returned an error
SinkAborts_Never(err) == FALSE

\* `if err != nil { return "", fmt.Errorf("streaming callback failed: %w", err) }`
SinkAborts(err) == err

\* Do: the call of the streaming sink (streamFunc of LLMServer.Predict, which
\* returns the error of stream.Send; nil when the request does not stream),
\* and the rest of the iteration: the piece is appended and the next batch is
\* the sampled token
Stream ==
    /\ dpc = "stream"
    /\ \E err \in (IF req.Stream THEN BOOLEAN ELSE {FALSE}) :
         /\ sinkCalls' = IF req.Stream THEN sinkCalls + 1 ELSE sinkCalls
         /\ sent' = IF req.Stream /\ ~err THEN Append(sent, samples) ELSE sent
         /\ sinkTokens' = IF req.Stream /\ ~err
                             THEN Append(sinkTokens, inputTokensCount + generatedTokens)
                             ELSE sinkTokens
         /\ IF SinkAborts(err)
              THEN /\ DoFails("sink")
                   /\ UNCHANGED <<response, generatedTokens, nBatch>>
              ELSE /\ failures' = IF err THEN failures \cup {"sink"} ELSE failures
                   /\ response' = Appended(response, samples)
                   /\ generatedTokens' = generatedTokens + 1
                   /\ nBatch' = 1
                   /\ dpc' = "loop"
                   /\ UNCHANGED result
    /\ UNCHANGED <<req, args, chain, inputTokensCount, nUsed, samples, decodes, eogAt, exhausted>>
    /\ UNCHANGED <<mmVars, pmVars, bcVars, cbVars, lkVars, monVars>>

\* ======================================================================
\* progress callbacks while the loaders of the model manager run
\* ======================================================================

CbInit == lateSinks = {}

\* the sinks registered on entry e
Registered(e) == {heap[e].Progresses[i] : i \in 1..Len(heap[e].Progresses)}

\* the LoadModel call that brought sink w is still in progress
CallInProgress(w) == \E u \in Callers : sink[u] = w /\ pc[u] # "idle"

\* the loader of the constructing caller t reports a progress value that
\* passes the throttle (1.0 always does): the closure of
\* broadcastingProgressFunc takes state.getProgresses() and calls every sink
LoaderBroadcasts(t) ==
    /\ pc[t] = "loading"
    /\ lateSinks' = lateSinks \cup {w \in Registered(state[t]) : ~CallInProgress(w)}
    /\ UNCHANGED <<mmVars, pmVars, bcVars, doVars, lkVars, monVars>>

\* ======================================================================
\* the model manager at the grain of its mutexes: every Lock is a step of
\* its own, the code up to the next Lock, Wait or call of the loader or of a
\* sink follows it in one step, with the deferred Unlock where it returns
\* ======================================================================

Lockers == 1..NumLockers

\* a frame of a call: op is the method, pc the position in it, state the
\* local `state`, ok the local `ok`, todo the local `modelStates` of Stop,
\* sunk tells whether the loader of this call has reported progress, called
\* whether the sink that runs has called the manager
Frame(op, at, k) ==
    [op |-> op, pc |-> at, path |-> k, state |-> NoState, ok |-> FALSE, todo |-> {},
     sunk |-> FALSE, called |-> FALSE]

LkInit ==
    /\ mx = 0
    /\ lkClosed = FALSE
    /\ lkStates = [k \in Paths |-> NoState]
    /\ lkHeap = <<>>
    /\ stack = [g \in Lockers |-> <<>>]
    /\ lkCalls = 0

\* the paths of the calls: the paths are interchangeable, so the second one
\* is asked for once the first has been
LkPaths == {k \in Paths : k = 1 \/ lkHeap # <<>> \/ \E g \in Lockers : stack[g] # <<>>}

Depth(g) == Len(stack[g])
Top(g) == stack[g][Depth(g)]
\* goroutine g is at position pc of its innermost call
At(g, at) == Depth(g) > 0 /\ Top(g).pc = at
\* the innermost frame of g becomes f
WithTop(g, f) == [stack EXCEPT ![g] = [@ EXCEPT ![Len(@)] = f]]
\* the innermost call of g returns
Popped(g) == [stack EXCEPT ![g] = SubSeq(@, 1, Len(@) - 1)]
\* the innermost call of g moves to position pc
Goto(g, at) == WithTop(g, [Top(g) EXCEPT !.pc = at])

\* the mutexes goroutine g holds
HoldsMx(g) == mx = g
HeldStates(g) == {e \in DOMAIN lkHeap : lkHeap[e].Mx = g}

\* a goroutine calls LoadModel, GetModel or Stop
Call(g) ==
    /\ Depth(g) = 0
    /\ \A u \in Lockers : u < g => Depth(u) > 0
    /\ lkCalls < MaxLockCalls
    /\ lkCalls' = lkCalls + 1
    /\ \/ \E k \in LkPaths : stack' = [stack EXCEPT ![g] = <<Frame("LoadModel", "initiateLoad", k)>>]
       \/ \E k \in LkPaths : stack' = [stack EXCEPT ![g] = <<Frame("GetModel", "GetModel", k)>>]
       \/ stack' = [stack EXCEPT ![g] = <<Frame("Stop", "cancelLoads", 0)>>]
    /\ UNCHANGED <<mx, lkClosed, lkStates, lkHeap>>
    /\ UNCHANGED <<mmVars, pmVars, bcVars, doVars, cbVars, monVars>>

\* m.Mx.Lock() of initiateLoad, removeState, GetModel and cancelLoads
Mx_Lock(g) ==
    /\ Depth(g) > 0
    /\ Top(g).pc \in {"initiateLoad", "removeState", "GetModel", "cancelLoads"}
    /\ mx = 0
    /\ mx' = g
    /\ stack' = Goto(g, Top(g).pc \o ".locked")
    /\ UNCHANGED <<lkClosed, lkStates, lkHeap, lkCalls>>
    /\ UNCHANGED <<mmVars, pmVars, bcVars, doVars, cbVars, monVars>>

\* initiateLoad under m.Mx, down to state.addProgress
initiateLoad_Locked(g) ==
    /\ At(g, "initiateLoad.locked")
    /\ IF lkClosed
         THEN /\ mx' = 0
              /\ stack' = Popped(g)
              /\ UNCHANGED <<lkStates, lkHeap>>
         ELSE IF lkStates[Top(g).path] = NoState
           THEN LET e == Len(lkHeap) + 1 IN
                /\ lkHeap' = Append(lkHeap, [Mx |-> 0, Model |-> FALSE, Err |-> FALSE, Wg |-> 1, sinks |-> 0])
                /\ lkStates' = [lkStates EXCEPT ![Top(g).path] = e]
                /\ stack' = WithTop(g, [Top(g) EXCEPT !.state = e, !.ok = FALSE, !.pc = "addProgress"])
                /\ UNCHANGED mx
           ELSE /\ stack' = WithTop(g, [Top(g) EXCEPT !.state = lkStates[Top(g).path], !.ok = TRUE,
                                                     !.pc = "addProgress"])
                /\ UNCHANGED <<mx, lkStates, lkHeap>>
    /\ UNCHANGED <<lkClosed, lkCalls>>
    /\ UNCHANGED <<mmVars, pmVars, bcVars, doVars, cbVars, monVars>>

\* state.Mx.Lock() of addProgress, getModel, getProgresses, saveLoaded and free
StateMx_Lock(g) ==
    /\ Depth(g) > 0
    /\ Top(g).pc \in {"addProgress", "getModel", "GetModel.getModel", "getProgresses", "saveLoaded", "free"}
    /\ lkHeap[Top(g).state].Mx = 0
    /\ lkHeap' = [lkHeap EXCEPT ![Top(g).state].Mx = g]
    /\ stack' = Goto(g, Top(g).pc \o ".locked")
    /\ UNCHANGED <<mx, lkClosed, lkStates, lkCalls>>
    /\ UNCHANGED <<mmVars, pmVars, bcVars, doVars, cbVars, monVars>>

\* addProgress under state.Mx, and the return of initiateLoad, which unlocks m.Mx
addProgress_Locked(g) ==
    /\ At(g, "addProgress.locked")
    /\ lkHeap' = [lkHeap EXCEPT ![Top(g).state].sinks = @ + 1, ![Top(g).state].Mx = 0]
    /\ mx' = 0
    /\ stack' = WithTop(g, [Top(g) EXCEPT !.ok = FALSE, !.pc = IF Top(g).ok THEN "getModel" ELSE "loader"])
    /\ UNCHANGED <<lkClosed, lkStates, lkCalls>>
    /\ UNCHANGED <<mmVars, pmVars, bcVars, doVars, cbVars, monVars>>

\* getModel under state.Mx, called by LoadModel, and the test on its result
getModel_Locked(g) ==
    /\ At(g, "getModel.locked")
    /\ lkHeap' = [lkHeap EXCEPT ![Top(g).state].Mx = 0]
    /\ stack' = IF lkHeap[Top(g).state].Model \/ ~lkHeap[Top(g).state].Err
                  THEN Popped(g)
                  ELSE Goto(g, "removeState")
    /\ UNCHANGED <<mx, lkClosed, lkStates, lkCalls>>
    /\ UNCHANGED <<mmVars, pmVars, bcVars, doVars, cbVars, monVars>>

\* removeState under m.Mx
removeState_Locked(g) ==
    /\ At(g, "removeState.locked")
    /\ lkStates' = IF lkStates[Top(g).path] = Top(g).state
                     THEN [lkStates EXCEPT ![Top(g).path] = NoState]
                     ELSE lkStates
    /\ mx' = 0
    /\ stack' = Goto(g, "Wg.Wait")
    /\ UNCHANGED <<lkClosed, lkHeap, lkCalls>>
    /\ UNCHANGED <<mmVars, pmVars, bcVars, doVars, cbVars, monVars>>

\* LoadModel: state.Wg.Wait() and the recursive m.LoadModel(path, progress)
Wg_Wait(g) ==
    /\ At(g, "Wg.Wait")
    /\ lkHeap[Top(g).state].Wg = 0
    /\ stack' = WithTop(g, [Top(g) EXCEPT !.state = NoState, !.pc = "initiateLoad"])
    /\ UNCHANGED <<mx, lkClosed, lkStates, lkHeap, lkCalls>>
    /\ UNCHANGED <<mmVars, pmVars, bcVars, doVars, cbVars, monVars>>

\* the loader, running in LoadModelFunc, calls the closure of
\* broadcastingProgressFunc with a value that passes the throttle
loader_Progress(g) ==
    /\ At(g, "loader")
    /\ ~Top(g).sunk
    /\ stack' = WithTop(g, [Top(g) EXCEPT !.sunk = TRUE, !.pc = "getProgresses"])
    /\ UNCHANGED <<mx, lkClosed, lkStates, lkHeap, lkCalls>>
    /\ UNCHANGED <<mmVars, pmVars, bcVars, doVars, cbVars, monVars>>

\* a closure that calls the sinks inside getProgresses, under state.Mx
SinksRunUnderStateMx_Always == TRUE

\* getProgresses returns a copy and unlocks state.Mx before any sink is called
SinksRunUnderStateMx == FALSE

\* getProgresses under state.Mx; the closure then calls the sinks
getProgresses_Locked(g) ==
    /\ At(g, "getProgresses.locked")
    /\ lkHeap' = [lkHeap EXCEPT ![Top(g).state].Mx = IF SinksRunUnderStateMx THEN @ ELSE 0]
    /\ stack' = WithTop(g, [Top(g) EXCEPT !.pc = "sink", !.called = FALSE])
    /\ UNCHANGED <<mx, lkClosed, lkStates, lkCalls>>
    /\ UNCHANGED <<mmVars, pmVars, bcVars, doVars, cbVars, monVars>>

\* a sink, while it runs, calls GetModel or LoadModel of the manager
sink_Calls(g) ==
    /\ At(g, "sink")
    /\ ~Top(g).called
    /\ Depth(g) < MaxDepth
    /\ \E k \in LkPaths, op \in {"LoadModel", "GetModel"} :
         stack' = [stack EXCEPT ![g] =
                     Append([@ EXCEPT ![Len(@)].called = TRUE],
                            Frame(op, IF op = "LoadModel" THEN "initiateLoad" ELSE "GetModel", k))]
    /\ UNCHANGED <<mx, lkClosed, lkStates, lkHeap, lkCalls>>
    /\ UNCHANGED <<mmVars, pmVars, bcVars, doVars, cbVars, monVars>>

\* the sinks return, the closure returns to the loader
sink_Returns(g) ==
    /\ At(g, "sink")
    /\ lkHeap' = [lkHeap EXCEPT ![Top(g).state].Mx = IF @ = g THEN 0 ELSE @]
    /\ stack' = WithTop(g, [Top(g) EXCEPT !.called = FALSE, !.pc = "loader"])
    /\ UNCHANGED <<mx, lkClosed, lkStates, lkCalls>>
    /\ UNCHANGED <<mmVars, pmVars, bcVars, doVars, cbVars, monVars>>

\* the loader returns a model or an error
loader_Returns(g) ==
    /\ At(g, "loader")
    /\ \E failed \in BOOLEAN :
         stack' = WithTop(g, [Top(g) EXCEPT !.pc = "saveLoaded", !.ok = failed])
    /\ UNCHANGED <<mx, lkClosed, lkStates, lkHeap, lkCalls>>
    /\ UNCHANGED <<mmVars, pmVars, bcVars, doVars, cbVars, monVars>>

\* saveLoaded under state.Mx, and the return of LoadModel with the deferred
\* state.Wg.Done()
saveLoaded_Locked(g) ==
    /\ At(g, "saveLoaded.locked")
    /\ lkHeap' = [lkHeap EXCEPT ![Top(g).state] =
                    [@ EXCEPT !.Model = ~Top(g).ok, !.Err = Top(g).ok, !.sinks = 0, !.Mx = 0,
                              !.Wg = @ - 1]]
    /\ stack' = Popped(g)
    /\ UNCHANGED <<mx, lkClosed, lkStates, lkCalls>>
    /\ UNCHANGED <<mmVars, pmVars, bcVars, doVars, cbVars, monVars>>

\* GetModel under m.Mx, down to state.getModel()
GetModel_Locked(g) ==
    /\ At(g, "GetModel.locked")
    /\ IF lkClosed \/ lkStates[Top(g).path] = NoState
         THEN /\ mx' = 0
              /\ stack' = Popped(g)
         ELSE /\ stack' = WithTop(g, [Top(g) EXCEPT !.state = lkStates[Top(g).path],
                                                   !.pc = "GetModel.getModel"])
              /\ UNCHANGED mx
    /\ UNCHANGED <<lkClosed, lkStates, lkHeap, lkCalls>>
    /\ UNCHANGED <<mmVars, pmVars, bcVars, doVars, cbVars, monVars>>

\* getModel under state.Mx, called by GetModel under m.Mx, and the return of GetModel
GetModel_getModel_Locked(g) ==
    /\ At(g, "GetModel.getModel.locked")
    /\ lkHeap' = [lkHeap EXCEPT ![Top(g).state].Mx = 0]
    /\ mx' = 0
    /\ stack' = Popped(g)
    /\ UNCHANGED <<lkClosed, lkStates, lkCalls>>
    /\ UNCHANGED <<mmVars, pmVars, bcVars, doVars, cbVars, monVars>>

\* position of Stop once the entries in `rest` are still to be visited
StopFrom(g, rest) ==
    IF rest = {} THEN Popped(g)
    ELSE WithTop(g, [Top(g) EXCEPT !.todo = rest, !.state = NoState, !.pc = "Stop.Wait"])

\* cancelLoads under m.Mx
cancelLoads_Locked(g) ==
    /\ At(g, "cancelLoads.locked")
    /\ mx' = 0
    /\ IF lkClosed
         THEN /\ stack' = Popped(g)
              /\ UNCHANGED lkClosed
         ELSE /\ lkClosed' = TRUE
              /\ stack' = StopFrom(g, {lkStates[k] : k \in Paths} \ {NoState})
    /\ UNCHANGED <<lkStates, lkHeap, lkCalls>>
    /\ UNCHANGED <<mmVars, pmVars, bcVars, doVars, cbVars, monVars>>

\* Stop: the next entry of the range loop and its state.Wg.Wait()
Stop_Wait(g) ==
    /\ At(g, "Stop.Wait")
    /\ \E e \in Top(g).todo :
         /\ lkHeap[e].Wg = 0
         /\ stack' = WithTop(g, [Top(g) EXCEPT !.state = e, !.todo = @ \ {e}, !.pc = "free"])
    /\ UNCHANGED <<mx, lkClosed, lkStates, lkHeap, lkCalls>>
    /\ UNCHANGED <<mmVars, pmVars, bcVars, doVars, cbVars, monVars>>

\* free under state.Mx
free_Locked(g) ==
    /\ At(g, "free.locked")
    /\ lkHeap' = [lkHeap EXCEPT ![Top(g).state] =
                    [@ EXCEPT !.Model = FALSE, !.Err = FALSE, !.sinks = 0, !.Mx = 0]]
    /\ stack' = StopFrom(g, Top(g).todo)
    /\ UNCHANGED <<mx, lkClosed, lkStates, lkCalls>>
    /\ UNCHANGED <<mmVars, pmVars, bcVars, doVars, cbVars, monVars>>

\* a step of goroutine g inside a call
LkStep(g) ==
    \/ Mx_Lock(g) \/ initiateLoad_Locked(g) \/ StateMx_Lock(g) \/ addProgress_Locked(g)
    \/ getModel_Locked(g) \/ removeState_Locked(g) \/ Wg_Wait(g) \/ loader_Progress(g)
    \/ getProgresses_Locked(g) \/ sink_Calls(g) \/ sink_Returns(g) \/ loader_Returns(g)
    \/ saveLoaded_Locked(g) \/ GetModel_Locked(g) \/ GetModel_getModel_Locked(g)
    \/ cancelLoads_Locked(g) \/ Stop_Wait(g) \/ free_Locked(g)

\* ======================================================================
\* the monitor of the child process (llmservice.monitor)
\* ======================================================================

MonStoppers == 1..NumMonStoppers

\* NewProcess has returned: the context is live, start() has added the loop
\* to wg and the loop is about to start the child
MonInit ==
    /\ ctxDone = FALSE
    /\ monWg = 1
    /\ lpc = "start"
    /\ child = "none"
    /\ reader = "none"
    /\ starts = 0
    /\ mspc = [s \in MonStoppers |-> "idle"]
    /\ cancelledAt = "none"
    /\ startedAfterStop = FALSE

StopReturned == \E s \in MonStoppers : mspc[s] = "returned"

\* a stop() that returns without l.wg.Wait()
LoopExited_NoWait == TRUE

\* l.wg.Wait() of stop returns once the loop has run its deferred l.wg.Done()
LoopExited == monWg = 0

\* loop: the deferred l.wg.Done() of a return
loop_return ==
    /\ lpc' = "exited"
    /\ monWg' = monWg - 1

\* loop: l.command.start(l.ctx) starts the child; exec's Start refuses a
\* context that is done
start_Ok ==
    /\ lpc = "start"
    /\ ~ctxDone
    /\ starts' = starts + 1
    /\ child' = "running"
    /\ reader' = "reading"
    /\ startedAfterStop' = (startedAfterStop \/ StopReturned)
    /\ lpc' = "cmd.Wait"
    /\ UNCHANGED <<ctxDone, monWg, mspc, cancelledAt>>
    /\ UNCHANGED <<mmVars, pmVars, bcVars, doVars, cbVars, lkVars>>

\* loop: l.command.start(l.ctx) fails; the select is entered with a fresh
\* timer of retryPeriod > 0
start_Fails ==
    /\ lpc = "start"
    /\ starts' = starts + 1
    /\ lpc' = "select"
    /\ UNCHANGED <<ctxDone, monWg, child, reader, mspc, cancelledAt, startedAfterStop>>
    /\ UNCHANGED <<mmVars, pmVars, bcVars, doVars, cbVars, lkVars>>

\* loop: case <-l.ctx.Done() of the select after a failed start
select_Done ==
    /\ lpc = "select"
    /\ ctxDone
    /\ loop_return
    /\ UNCHANGED <<ctxDone, child, reader, starts, mspc, cancelledAt, startedAfterStop>>
    /\ UNCHANGED <<mmVars, pmVars, bcVars, doVars, cbVars, lkVars>>

\* loop: case <-time.After(retryPeriod) of the select after a failed start
select_After ==
    /\ lpc = "select"
    /\ starts < MaxStarts
    /\ lpc' = "start"
    /\ UNCHANGED <<ctxDone, monWg, child, reader, starts, mspc, cancelledAt, startedAfterStop>>
    /\ UNCHANGED <<mmVars, pmVars, bcVars, doVars, cbVars, lkVars>>

\* the child exits by itself
child_Exits ==
    /\ child = "running"
    /\ starts < MaxStarts
    /\ child' = "exited"
    /\ UNCHANGED <<ctxDone, monWg, lpc, reader, starts, mspc, cancelledAt, startedAfterStop>>
    /\ UNCHANGED <<mmVars, pmVars, bcVars, doVars, cbVars, lkVars>>

\* exec.CommandContext: the context is done, cmd.Cancel signals the child, which
\* is killed after cmd.WaitDelay if it has not exited
child_Cancelled ==
    /\ child = "running"
    /\ ctxDone
    /\ child' = "exited"
    /\ UNCHANGED <<ctxDone, monWg, lpc, reader, starts, mspc, cancelledAt, startedAfterStop>>
    /\ UNCHANGED <<mmVars, pmVars, bcVars, doVars, cbVars, lkVars>>

\* the goroutine of l.output.read(stdout): the scanner reaches the end of the
\* output of a child that has exited, outputWg.Done()
output_read ==
    /\ reader = "reading"
    /\ child = "exited"
    /\ reader' = "done"
    /\ UNCHANGED <<ctxDone, monWg, lpc, child, starts, mspc, cancelledAt, startedAfterStop>>
    /\ UNCHANGED <<mmVars, pmVars, bcVars, doVars, cbVars, lkVars>>

\* loop: cmd.Wait() returns
cmd_Wait ==
    /\ lpc = "cmd.Wait"
    /\ child = "exited"
    /\ lpc' = "outputWg.Wait"
    /\ UNCHANGED <<ctxDone, monWg, child, reader, starts, mspc, cancelledAt, startedAfterStop>>
    /\ UNCHANGED <<mmVars, pmVars, bcVars, doVars, cbVars, lkVars>>

\* loop: outputWg.Wait() returns, and the select with a default decides
\* between return and the next iteration
outputWg_Wait ==
    /\ lpc = "outputWg.Wait"
    /\ reader = "done"
    /\ child' = "none"
    /\ reader' = "none"
    /\ IF ctxDone THEN loop_return ELSE lpc' = "start" /\ UNCHANGED monWg
    /\ UNCHANGED <<ctxDone, starts, mspc, cancelledAt, startedAfterStop>>
    /\ UNCHANGED <<mmVars, pmVars, bcVars, doVars, cbVars, lkVars>>

\* stop: l.cancel()
stop_cancel(s) ==
    /\ mspc[s] = "idle"
    /\ ctxDone' = TRUE
    /\ cancelledAt' = IF ctxDone THEN cancelledAt ELSE lpc
    /\ mspc' = [mspc EXCEPT ![s] = "wg.Wait"]
    /\ UNCHANGED <<monWg, lpc, child, reader, starts, startedAfterStop>>
    /\ UNCHANGED <<mmVars, pmVars, bcVars, doVars, cbVars, lkVars>>

\* stop: l.wg.Wait() returns, and with it stop and Process.Stop
stop_Wait(s) ==
    /\ mspc[s] = "wg.Wait"
    /\ LoopExited
    /\ mspc' = [mspc EXCEPT ![s] = "returned"]
    /\ UNCHANGED <<ctxDone, monWg, lpc, child, reader, starts, cancelledAt, startedAfterStop>>
    /\ UNCHANGED <<mmVars, pmVars, bcVars, doVars, cbVars, lkVars>>

\* the steps of the loop
loop ==
    \/ start_Ok \/ start_Fails \/ select_Done \/ select_After \/ cmd_Wait \/ outputWg_Wait

\* ======================================================================
\* specifications
\* ======================================================================

Init == MMInit /\ PMInit /\ BCInit /\ DoInit /\ CbInit /\ LkInit /\ MonInit

MMNext ==
    \/ \E t \in Callers : LoadModel(t)
    \/ \E t \in Callers : initiateLoad(t)
    \/ \E t \in Callers : LoadModelCheck(t)
    \/ \E t \in Callers : removeState(t)
    \/ \E t \in Callers : LoadModelWait(t)
    \/ \E t \in Callers : saveLoaded(t)
    \/ \E t \in Callers : LoadModelReturn(t)
    \/ \E t \in Callers : GetModel(t)
    \/ \E s \in Stoppers : cancelLoads(s)
    \/ \E s \in Stoppers : StopWait(s)
    \/ \E s \in Stoppers : free(s)

PMNext ==
    \/ \E p \in Predictors : Predict(p)
    \/ \E p \in Predictors : initiatePrediction(p)
    \/ \E p \in Predictors : PredictReturn(p)
    \/ \E s \in PStoppers : cancelPredictions(s)
    \/ \E s \in PStoppers : PStopWait(s)

\* the model manager alone
Next == MMNext
Spec == Init /\ [][Next]_vars

\* the predictions manager alone
PNext == PMNext
PSpec == Init /\ [][PNext]_vars

\* The whole server: LLMServer.Stop runs predictionManager.Stop() and then
\* modelManager.Stop() in one goroutine, while LoadModel, GetModel and Predict
\* calls go on.
ServerStoppers == Stoppers \cap PStoppers
SrvLoadModel(t) == calls < SrvCalls /\ LoadModel(t)
SrvGetModel(t) == calls < SrvCalls /\ GetModel(t)
SrvPredict(p) == pcalls < SrvPredicts /\ Predict(p)
\* LLMServer.Stop: server.predictionManager.Stop() begins
SrvStopPredictions(s) == cancelPredictions(s)
\* LLMServer.Stop: server.modelManager.Stop() begins once predictionManager.Stop() has returned
SrvStopLoads(s) == pspc[s] = "returned" /\ cancelLoads(s)

SrvNext ==
    \/ \E t \in Callers : SrvLoadModel(t)
    \/ \E t \in Callers : initiateLoad(t)
    \/ \E t \in Callers : LoadModelCheck(t)
    \/ \E t \in Callers : removeState(t)
    \/ \E t \in Callers : LoadModelWait(t)
    \/ \E t \in Callers : saveLoaded(t)
    \/ \E t \in Callers : LoadModelReturn(t)
    \/ \E t \in Callers : SrvGetModel(t)
    \/ \E p \in Predictors : SrvPredict(p)
    \/ \E p \in Predictors : initiatePrediction(p)
    \/ \E p \in Predictors : PredictReturn(p)
    \/ \E s \in ServerStoppers : SrvStopPredictions(s)
    \/ \E s \in ServerStoppers : PStopWait(s)
    \/ \E s \in ServerStoppers : SrvStopLoads(s)
    \/ \E s \in ServerStoppers : StopWait(s)
    \/ \E s \in ServerStoppers : free(s)

\* Every goroutine inside a call keeps running; the loader, Destroy and the
\* predict function return; nothing obliges a goroutine to start a call, but
\* LLMServer.Stop, once begun, goes on to its second call.
SrvFairSpec ==
    /\ Init /\ [][SrvNext]_vars
    /\ \A t \in Callers :
         WF_vars(initiateLoad(t) \/ LoadModelCheck(t) \/ removeState(t) \/ LoadModelWait(t)
                   \/ saveLoaded(t) \/ LoadModelReturn(t))
    /\ \A p \in Predictors : WF_vars(initiatePrediction(p) \/ PredictReturn(p))
    /\ \A s \in ServerStoppers : WF_vars(PStopWait(s) \/ SrvStopLoads(s) \/ StopWait(s) \/ free(s))

\* the broadcast of one entry, the loader emitting any values
BNext ==
    \/ \E v \in Values : Emit(v)
    \/ Deliver
    \/ \E w \in Sinks : addProgress(w)
    \/ loaderReturns
BSpec == Init /\ [][BNext]_vars

\* the broadcast of one entry, the loader emitting an evenly spaced sequence
LinNext ==
    \/ EmitLin
    \/ Deliver
    \/ loaderReturnsLin
LinInit == MMInit /\ PMInit /\ BCLinInit /\ DoInit /\ CbInit /\ LkInit /\ MonInit
LinSpec == LinInit /\ [][LinNext]_vars

\* one Predict request, from LLMServer.Predict to the return of predictCmd.Do
DoNext ==
    \/ \E r \in Requests : ServerPredict(r)
    \/ DoNewContext
    \/ DoNewSamplerChain
    \/ AddPenaltiesSampler
    \/ AddTopKSampler
    \/ AddTopPSampler
    \/ AddMinPSampler
    \/ AddTempSampler
    \/ AddDistSampler
    \/ Tokenize
    \/ Decode
    \/ Sample
    \/ TokenToPiece
    \/ Stream
DoSpec == Init /\ [][DoNext]_vars

\* the model manager with the progress callbacks of its loaders
CbNext ==
    \/ \E t \in Callers : LoadModel(t)
    \/ \E t \in Callers : initiateLoad(t)
    \/ \E t \in Callers : LoadModelCheck(t)
    \/ \E t \in Callers : removeState(t)
    \/ \E t \in Callers : LoadModelWait(t)
    \/ \E t \in Callers : saveLoaded(t)
    \/ \E t \in Callers : LoadModelReturn(t)
    \/ \E t \in Callers : GetModel(t)
    \/ \E s \in Stoppers : cancelLoads(s)
    \/ \E s \in Stoppers : StopWait(s)
    \/ \E s \in Stoppers : free(s)
    \/ \E t \in Callers : LoaderBroadcasts(t)
CbSpec == Init /\ [][CbNext]_vars

\* the model manager at the grain of its mutexes
LkNext ==
    \/ \E g \in Lockers : Call(g)
    \/ \E g \in Lockers : Mx_Lock(g)
    \/ \E g \in Lockers : initiateLoad_Locked(g)
    \/ \E g \in Lockers : StateMx_Lock(g)
    \/ \E g \in Lockers : addProgress_Locked(g)
    \/ \E g \in Lockers : getModel_Locked(g)
    \/ \E g \in Lockers : removeState_Locked(g)
    \/ \E g \in Lockers : Wg_Wait(g)
    \/ \E g \in Lockers : loader_Progress(g)
    \/ \E g \in Lockers : getProgresses_Locked(g)
    \/ \E g \in Lockers : sink_Calls(g)
    \/ \E g \in Lockers : sink_Returns(g)
    \/ \E g \in Lockers : loader_Returns(g)
    \/ \E g \in Lockers : saveLoaded_Locked(g)
    \/ \E g \in Lockers : GetModel_Locked(g)
    \/ \E g \in Lockers : GetModel_getModel_Locked(g)
    \/ \E g \in Lockers : cancelLoads_Locked(g)
    \/ \E g \in Lockers : Stop_Wait(g)
    \/ \E g \in Lockers : free_Locked(g)

\* every goroutine inside a call keeps running; the loader and the sinks return
LkFairSpec ==
    /\ Init /\ [][LkNext]_vars
    /\ \A g \in Lockers : WF_vars(LkStep(g))

\* the monitor of the child process and the goroutines that stop it
MonNext ==
    \/ start_Ok
    \/ start_Fails
    \/ select_Done
    \/ select_After
    \/ child_Exits
    \/ child_Cancelled
    \/ output_read
    \/ cmd_Wait
    \/ outputWg_Wait
    \/ \E s \in MonStoppers : stop_cancel(s)
    \/ \E s \in MonStoppers : stop_Wait(s)

\* the goroutines keep running, a cancelled child exits, the reader reaches
\* the end of the output of a child that has exited, and a select with
\* several ready cases does not avoid one of them for ever
MonFairSpec ==
    /\ Init /\ [][MonNext]_vars
    /\ WF_vars(loop) /\ SF_vars(select_Done)
    /\ WF_vars(child_Cancelled) /\ WF_vars(output_read)
    /\ \A s \in MonStoppers : WF_vars(stop_Wait(s))

\* LoadModel and GetModel calls of the behaviours checked for liveness,
\* which issue at most LiveCalls calls
LiveLoadModel(t) == calls < LiveCalls /\ LoadModel(t)
LiveGetModel(t) == calls < LiveCalls /\ GetModel(t)

LiveNext ==
    \/ \E t \in Callers : LiveLoadModel(t)
    \/ \E t \in Callers : initiateLoad(t)
    \/ \E t \in Callers : LoadModelCheck(t)
    \/ \E t \in Callers : removeState(t)
    \/ \E t \in Callers : LoadModelWait(t)
    \/ \E t \in Callers : saveLoaded(t)
    \/ \E t \in Callers : LoadModelReturn(t)
    \/ \E t \in Callers : LiveGetModel(t)
    \/ \E s \in Stoppers : cancelLoads(s)
    \/ \E s \in Stoppers : StopWait(s)
    \/ \E s \in Stoppers : free(s)

\* Every goroutine that is inside a call keeps running, and the loader and
\* the predict function return; nothing obliges a goroutine to start a call.
FairSpec ==
    /\ Init /\ [][LiveNext]_vars
    /\ \A t \in Callers :
         WF_vars(initiateLoad(t) \/ LoadModelCheck(t) \/ removeState(t) \/ LoadModelWait(t)
                   \/ saveLoaded(t) \/ LoadModelReturn(t))
    /\ \A s \in Stoppers : WF_vars(StopWait(s) \/ free(s))

PFairSpec ==
    /\ PSpec
    /\ \A p \in Predictors : WF_vars(initiatePrediction(p) \/ PredictReturn(p))
    /\ \A s \in PStoppers : WF_vars(PStopWait(s))

\* ======================================================================
\* properties
\* ======================================================================

Entries == DOMAIN heap
ClosedResult == [model |-> NilModel, err |-> ErrModelManagerClosed]
Succeeded(e) == heap[e].out \in {"destroyable", "plain", "nil"}
\* number of loader invocations for key k: the loader is invoked once for
\* every entry created
LoadCount(k) == Cardinality({e \in Entries : heap[e].key = k})
LoaderFailed(k) == \E e \in Entries : heap[e].key = k /\ heap[e].out = "err"

\* C1: a LoadModel call that found the entry of its key still under
\* construction does not return before that construction has stored its result.
C1_WaiterReturnsAfterCompletion ==
    last.op = "LoadModel" /\ last.joined # NoState => ~InFlight(last.joined)

\* C2: as long as no loader invocation for a key has failed, the loader has
\* been invoked at most once for the key, and exactly once as soon as a
\* LoadModel call for the key has been admitted.
C2_LoaderInvokedOnce ==
    \A k \in Paths :
        ~LoaderFailed(k) =>
            /\ LoadCount(k) <= 1
            /\ \A t \in Callers :
                 path[t] = k /\ pc[t] \in {"loading", "check", "return"} => LoadCount(k) = 1
            /\ last.op = "LoadModel" /\ last.path = k /\ last.res # ClosedResult
                 => LoadCount(k) = 1

\* two LoadModel calls overlapped on one key whose loader succeeded, both returned
C2_Witness ==
    /\ last.op = "LoadModel" /\ last.joined # NoState
    /\ heap[last.joined].Wg = 0 /\ Succeeded(last.joined)
    /\ LoadCount(last.path) = 1
    /\ \A t \in Callers : pc[t] = "idle"

\* C3: a LoadModel call that overlapped a construction returns what that
\* construction produced: its model with nil error, or its error.
C3_WaitersSeeConstructionResult ==
    last.op = "LoadModel" /\ last.joined # NoState /\ last.res # ClosedResult
      /\ heap[last.joined].out # "none" =>
        LET e == last.joined IN
          /\ heap[e].out \in {"destroyable", "plain"} =>
                last.res.model.id = e /\ last.res.err = NoErr
          /\ heap[e].out = "nil" => last.res = NoResult
          /\ heap[e].out = "err" => last.res.model = NilModel /\ last.res.err = e

\* C4: at most one loader invocation is in flight per key, and an entry under
\* construction is the mapped entry of its key (no retrying caller evicted it).
C4_OneConstructionPerKey ==
    /\ \A k \in Paths : Cardinality({t \in Callers : pc[t] = "loading" /\ path[t] = k}) <= 1
    /\ \A e \in Entries : InFlight(e) => ModelStates[heap[e].key] = e

\* two callers found the same cached failure; one has run removeState on the
\* stale entry while the construction the other started is in flight
C4_Witness ==
    \E t \in Callers, u \in Callers :
        /\ pc[t] = "loading" /\ pc[u] = "wait" /\ path[t] = path[u]
        /\ state[u] # state[t] /\ heap[state[u]].out = "err"
        /\ ModelStates[path[t]] = state[t]

\* C5: once a Stop has returned the manager is closed, and every LoadModel or
\* GetModel call begun after that returns (nil, ErrModelManagerClosed).
C5_ClosedAfterStop ==
    /\ SomeStopReturned => Closed
    /\ last.afterStop => last.res = ClosedResult

\* a call begun after Stop returned, for a key whose construction had succeeded
C5_Witness ==
    /\ last.afterStop
    /\ \E e \in Entries : heap[e].key = last.path /\ heap[e].out = "destroyable"

\* C7: Stop frees an entry only after its construction has stored its result
\* and signalled completion, and Destroy is invoked only on a model that a
\* construction produced and that has the Destroy capability.
C7_StopFreesCompletedEntries ==
    /\ \A s \in Stoppers : spc[s] = "free" => ~InFlight(cur[s]) /\ heap[cur[s]].Wg = 0
    /\ \A e \in Entries : heap[e].destroys > 0 => heap[e].out = "destroyable"

\* Stop has destroyed one captured model and is held at Wg.Wait() of another
\* captured entry whose construction is in flight
C7_Witness ==
    \E s \in Stoppers :
        /\ spc[s] = "loop"
        /\ \E e \in modelStates[s] : InFlight(e)
        /\ \E e \in Entries : heap[e].destroys = 1

\* C8: when the Stop call that flipped m.Closed has returned, no construction
\* is in flight, no entry holds a model, and every model with the Destroy
\* capability that a construction produced has been destroyed.
C8_NoModelLeftAfterStop ==
    \A s \in Stoppers :
        spc[s] = "returned" /\ captures[s] # NoCapture =>
            \A e \in Entries :
                /\ ~InFlight(e)
                /\ heap[e].Model = NilModel
                /\ heap[e].out = "destroyable" => heap[e].destroys = 1

\* the flipping Stop returned after a failed load, a retry and two successful loads
C8_Witness ==
    \E s \in Stoppers :
        /\ spc[s] = "returned" /\ captures[s] = 2
        /\ \E e \in Entries : heap[e].out = "err"
        /\ \E e \in Entries : heap[e].destroys = 1

\* C9 (safety part): at most one Stop call flips m.Closed and captures
\* entries, Destroy is invoked at most once per model, and a Stop that waits
\* at an entry waits for a construction that some goroutine is still running.
C9_Safe ==
    /\ Cardinality({s \in Stoppers : captures[s] # NoCapture}) <= 1
    /\ \A e \in Entries : heap[e].destroys <= 1
    /\ \A s \in Stoppers : spc[s] # "idle" => Closed
    /\ \A s \in Stoppers : spc[s] = "loop" =>
         \A e \in modelStates[s] :
            heap[e].Wg = 0 \/ \E t \in Callers : state[t] = e /\ pc[t] \in {"loading", "return"}

\* C9: every Stop call that has begun returns, and the calls together perform
\* one teardown pass.
C9_OneTeardownAllReturn ==
    /\ []C9_Safe
    /\ \A s \in Stoppers : (spc[s] # "idle") ~> (spc[s] = "returned")

\* every Stop call has returned, one of them tore down a model
C9_Witness ==
    /\ \A s \in Stoppers : spc[s] = "returned"
    /\ \E s \in Stoppers : captures[s] >= 1
    /\ \E e \in Entries : heap[e].destroys = 1

\* C6: a returned predictionsManager.Stop leaves no admitted Predict running,
\* and a Predict call begun once m.closed is set does not invoke predictFunc
\* and returns ErrPredictionsManagerClosed.
C6_StopDrainsPredictions ==
    /\ \A s \in PStoppers : pspc[s] = "returned" =>
         wg = 0 /\ \A p \in Predictors : ppc[p] # "predictFunc"
    /\ \A p \in Predictors : pAfterClose[p] => ppc[p] # "predictFunc"
    /\ plast.afterClose => ~plast.ran /\ plast.err = ErrPredictionsManagerClosed

\* Stop is held at m.wg.Wait() by an admitted prediction that still runs,
\* and a Predict call begun after the flag was set has been rejected
C6_Witness ==
    /\ \E s \in PStoppers : pspc[s] = "wait"
    /\ \E p \in Predictors : ppc[p] = "predictFunc"
    /\ plast.afterClose /\ plast.err = ErrPredictionsManagerClosed

\* C10 (safety part): m.closed is assigned at most once and stays set from
\* the first Stop on, and no Stop has returned while a prediction runs.
C10_Safe ==
    /\ flips <= 1
    /\ \A s \in PStoppers : pspc[s] # "idle" => closed /\ flips = 1
    /\ \A s \in PStoppers : pspc[s] = "returned" => \A p \in Predictors : ppc[p] # "predictFunc"

\* C10: every predictionsManager.Stop call that has begun returns, none
\* before the predictions in flight have returned, and the flag is set once.
C10_StopIdempotent ==
    /\ []C10_Safe
    /\ \A s \in PStoppers : (pspc[s] # "idle") ~> (pspc[s] = "returned")

\* all Stop calls have returned after a prediction was admitted and ran
C10_Witness ==
    /\ \A s \in PStoppers : pspc[s] = "returned"
    /\ flips = 1
    /\ plast.ran

\* the LoadModel call that returned last began when constructions of its path
\* had failed, and no Stop has begun since (what it found and left behind
\* does not change afterwards, so every such call is seen in such a state)
RetriedCall == last.op = "LoadModel" /\ last.stale # {} /\ ~Closed

\* entries of the path of the call that returned last which were created after it began
FreshEntries == {e \in Entries : heap[e].key = last.path /\ \A x \in last.stale : e > x}

\* C11: a LoadModel call begun after a construction of its path had failed
\* never returns the error of that construction; unless Stop intervenes
\* a construction created after the call began exists, the call returns the
\* result of such a construction when it did not find it under way, and a
\* failing load followed by one further load has invoked the loader exactly twice.
C11_RetryAfterFailure ==
    /\ last.op = "LoadModel" => \A e \in last.stale : last.res.err # e
    /\ RetriedCall =>
         /\ FreshEntries # {}
         /\ last.joined = NoState => \E e \in FreshEntries : ~InFlight(e) /\ last.res = Returned(e)
         /\ calls = 2 /\ (\A t \in Callers : pc[t] = "idle") =>
               LoadCount(last.path) = 2 /\ last.res = Returned(2)

\* a failing load followed by a load whose loader succeeds: the second call
\* returned the model of the second construction
C11_Witness ==
    /\ RetriedCall /\ calls = 2 /\ \A t \in Callers : pc[t] = "idle"
    /\ last.stale = {1} /\ Len(heap) = 2 /\ heap[2].out = "destroyable" /\ last.res.model.id = 2

\* C12 as stated: once the constructing LoadModel call has returned the error
\* of a construction, the map no longer holds the failed entry.
C12_FailedEntryEvictedAtOnce ==
    \A e \in Entries : heap[e].out = "err" /\ heap[e].Wg = 0 => ModelStates[heap[e].key] # e

\* C12 (amended): a failed entry stays mapped until the next LoadModel call for
\* its path finds it; that call removes it before it waits and retries, so a
\* call begun after the failure leaves none of the failed entries mapped
\* unless Stop intervenes; only failed entries are ever removed from the map.
C12_FailedEntryEvictedByNextLoad ==
    /\ \A t \in Callers : pc[t] = "wait" => ModelStates[path[t]] # state[t]
    /\ RetriedCall => ModelStates[last.path] \notin last.stale
    /\ \A e \in Entries : ModelStates[heap[e].key] # e => heap[e].out = "err"

\* the failed entry stayed mapped after its constructing call returned, and a
\* later call has removed it and waits before retrying
C12_Witness ==
    \E t \in Callers :
        /\ pc[t] = "wait" /\ state[t] \in stale[t]
        /\ heap[state[t]].Wg = 0 /\ ModelStates[path[t]] = NoState

\* C13 (safety part): while the manager is closed every construction under
\* way belongs to an entry the closing Stop captured and has not freed yet.
C13_Safe ==
    Closed => \A e \in Entries : InFlight(e) =>
        /\ ModelStates[heap[e].key] = e
        /\ \E s \in Stoppers : e \in modelStates[s] /\ captures[s] # NoCapture

\* C13: once m.Closed is set no entry is created and none is added to the
\* map, also by callers retrying a cached failure, and the constructions
\* registered before run to completion before Stop frees their entries.
C13_NoConstructionAfterClose ==
    /\ []C13_Safe
    /\ [][Closed => /\ Len(heap') = Len(heap)
                    /\ \A k \in Paths : ModelStates'[k] \in {ModelStates[k], NoState}]_vars

\* the manager was closed while a construction was under way, and a caller
\* that had evicted a cached failure was turned away at its retry
C13_Witness ==
    /\ Closed /\ \E t \in Callers : pc[t] = "loading"
    /\ last.op = "LoadModel" /\ last.res = ClosedResult
    /\ last.stale # {} /\ ModelStates[last.path] = NoState

\* C14: a LoadModel call returns (nil, ErrModelManagerClosed) or the outcome
\* of a construction of its path, whatever Stop does meanwhile; in particular
\* it does not return (nil, nil) when the construction produced a model.
\* (Stated for the calls that found no construction under way; the others are
\* the case of C1.)
C14_ClosedOrConstructionOutcome ==
    last.op = "LoadModel" /\ last.joined = NoState =>
        \/ last.res = ClosedResult
        \/ \E e \in Entries : heap[e].key = last.path /\ ~InFlight(e) /\ last.res = Returned(e)

\* C15: from the moment a construction has stored its result until Stop
\* begins, the entry's Progresses is empty and the entry holds either a model
\* and no error or an error and no model, also after later LoadModel calls
\* found the entry.  (Stated for loaders that return one of the two.)
C15_CompletedEntryShape ==
    ~Closed => \A e \in Entries : heap[e].out \in {"destroyable", "plain", "err"} =>
        /\ heap[e].Progresses = <<>>
        /\ \/ heap[e].Model # NilModel /\ heap[e].Err = NoErr
           \/ heap[e].Model = NilModel /\ heap[e].Err # NoErr

InSeq(w, sq) == \E i \in 1..Len(sq) : sq[i] = w
ValuesOf(sq) == [i \in 1..Len(sq) |-> sq[i].v]
\* the values that passed the throttle while sink w was in the copy taken
BroadcastTo(w) == ValuesOf(SelectSeq(emits, LAMBDA r : r.passed /\ InSeq(w, r.to)))
IsPrefix(a, b) == Len(a) <= Len(b) /\ SubSeq(b, 1, Len(a)) = a

\* C17: every value that passes the throttle goes to exactly the sinks
\* registered before it was emitted, so a sink registered while the loader
\* runs gets every later broadcast; each sink is called with its values in
\* the order of emission, none missing once the range loop has ended.
C17_BroadcastInOrderToAll ==
    /\ \A i \in 1..Len(emits) : emits[i].passed =>
         \A w \in Sinks : InSeq(w, emits[i].to) <=> (regAt[w] # NotRegistered /\ regAt[w] < i)
    /\ \A w \in Sinks :
         /\ IsPrefix(received[w], BroadcastTo(w))
         /\ Len(received[w]) >= Len(BroadcastTo(w)) - 1
         /\ bpc # "deliver" => received[w] = BroadcastTo(w)

\* the loader has returned; a sink that registered after the first value
\* was emitted got two later broadcasts, the constructing caller's sink more
C17_Witness ==
    /\ bpc = "done"
    /\ \E w \in Sinks : /\ regAt[w] >= 1 /\ Len(received[w]) >= 2
                         /\ Len(received[1]) > Len(received[w])
                         /\ IsPrefix(received[w], received[1]) = FALSE

\* emissions before the i-th that were broadcast with a value strictly between 0 and 1
BroadcastBefore(i) == {j \in 1..(i - 1) : emits[j].passed /\ Intermediate(emits[j].v)}

\* C18: of the values strictly between 0 and 1, one is broadcast exactly when
\* its integer percent is at least one more than that of every value
\* broadcast before (and at least 1: the closure starts at percent 0), so
\* after a broadcast at percent p nothing is broadcast until percent p+1 or
\* more arrives and no integer percent is broadcast twice; 0.0 and 1.0 are
\* broadcast every time they are emitted.
C18_ThrottlePerIntegerPercent ==
    /\ \A i \in 1..Len(emits) :
         LET v == emits[i].v IN
           IF Intermediate(v)
             THEN emits[i].passed <=>
                    /\ IntProgress(v) >= 1
                    /\ \A j \in BroadcastBefore(i) : IntProgress(v) >= IntProgress(emits[j].v) + 1
             ELSE emits[i].passed
    /\ \A i \in 1..Len(emits) : \A j \in BroadcastBefore(i) :
         emits[i].passed /\ Intermediate(emits[i].v) => IntProgress(emits[j].v) < IntProgress(emits[i].v)

\* 1% was broadcast, a later 1.5% was held back, a later 2% was broadcast,
\* and 1.0 was broadcast after them
C18_Witness ==
    /\ Len(emits) = 4
    /\ emits[1].v = 2 /\ emits[1].passed
    /\ emits[2].v = 3 /\ ~emits[2].passed
    /\ emits[3].v = 4 /\ emits[3].passed
    /\ emits[4].v = Den /\ emits[4].passed /\ bpc = "done"

\* integer percents of the values of the evenly spaced sequence emitted so far
Crossed == {IntProgress(i) : i \in 0..(idx - 1)}
\* number of values broadcast so far
NumBroadcast == Cardinality({i \in 1..Len(emits) : emits[i].passed})

\* C19: while the loader emits 0/d, 1/d, .., d/d the sink is called at most
\* 101 times and the values broadcast are never fewer than the distinct
\* integer percents of the values emitted; when the loader has returned the
\* sink has got every broadcast and the last one is 1.0.
C19_EvenlySpacedBroadcasts ==
    /\ NumBroadcast <= 101 /\ Len(received[1]) <= NumBroadcast
    /\ NumBroadcast >= Cardinality(Crossed)
    /\ bpc = "done" => /\ Len(received[1]) = NumBroadcast
                       /\ received[1][Len(received[1])] = den

\* 1000 evenly spaced values were emitted: most were held back, the sink got 101
C19_Witness ==
    /\ den = 1000 - 1 /\ bpc = "done" /\ Len(emits) = 1000
    /\ Len(received[1]) = 101 /\ Cardinality(Crossed) = 101

NotFoundResult == [model |-> NilModel, err |-> ErrModelNotFound]

\* what a GetModel call for path k that returns r may return in the state it is made in
GetModelContract(k, r) ==
    /\ Closed => r = ClosedResult
    /\ ~Closed /\ ModelStates[k] = NoState => r = NotFoundResult
    /\ ~Closed /\ ModelStates[k] # NoState =>
         LET e == ModelStates[k] IN
           /\ InFlight(e) => r = NoResult
           /\ ~InFlight(e) => r = Returned(e)

\* C20: GetModel can be called in every state, whatever constructions are
\* under way, and returns at once: (nil, ErrModelManagerClosed) when the
\* manager is closed, else (nil, ErrModelNotFound) when the map has no entry
\* for the path, else (nil, nil) while the entry's construction is under way
\* and what the construction returned once it has completed.
C20_GetModelNeverBlocks ==
    /\ [](\A t \in Callers : NextIdle(t) /\ calls < MaxCalls => ENABLED GetModel(t))
    /\ [][calls' = calls + 1 /\ pc' = pc =>
            last'.op = "GetModel" /\ GetModelContract(last'.path, last'.res)]_vars

\* a GetModel call for a path whose construction is under way returned (nil, nil)
C20_Witness ==
    /\ last.op = "GetModel" /\ last.res = NoResult /\ ~Closed
    /\ ModelStates[last.path] # NoState /\ InFlight(ModelStates[last.path])

\* C21: a LoadModel call begun when the construction of its path had
\* succeeded never enters the loader, never evicts and never waits; the entry
\* stays the mapped entry of the path; no loader runs for a completed entry,
\* so the sink the call registered is never called; and, Stop not having
\* begun, the call returns what that construction returned and no entry was
\* created for the path since.
C21_CacheHitReturnsCachedModel ==
    /\ \A t \in Callers : hit[t] # NoState =>
         /\ pc[t] \in {"initiateLoad", "check"}
         /\ ModelStates[path[t]] = hit[t]
    /\ \A e \in Entries : ~InFlight(e) => \A t \in Callers : ~(pc[t] = "loading" /\ state[t] = e)
    /\ \A e \in Entries : Succeeded(e) => ModelStates[heap[e].key] = e
    /\ last.op = "LoadModel" /\ last.hit # NoState /\ ~Closed =>
         /\ last.res = Returned(last.hit)
         /\ ModelStates[last.path] = last.hit
         /\ \A e \in Entries : heap[e].key = last.path => e <= last.hit

\* a call begun after its path's model had been constructed returned that model
C21_Witness ==
    /\ last.op = "LoadModel" /\ last.hit # NoState /\ ~Closed
    /\ heap[last.hit].out = "destroyable" /\ last.res.model.id = last.hit
    /\ Len(heap[last.hit].Progresses) = 1

\* C22: in the predictions manager m.closed, once set, stays set, and from
\* then on the count of m.wg never goes up: it goes down, never below zero.
C22_ClosedStaysCountFalls ==
    /\ [](wg >= 0)
    /\ [][closed => closed' /\ wg' <= wg]_vars

\* the flag is set while two admitted predictions run and a third call is
\* about to be turned away
C22_Witness ==
    /\ closed /\ wg = 2
    /\ \E p \in Predictors : ppc[p] = "initiatePrediction"

\* C23: every LLMServer.Stop call that has begun returns: its
\* predictionManager.Stop() returns and then its modelManager.Stop() returns,
\* whatever LoadModel, GetModel, Predict and Stop calls run beside it.
C23_StopReturns ==
    \A s \in ServerStoppers :
        /\ (pspc[s] # "idle") ~> (pspc[s] = "returned")
        /\ (pspc[s] # "idle") ~> (spc[s] = "returned")

\* all LLMServer.Stop calls have returned after a prediction ran, a model was
\* constructed and Stop destroyed it
C23_Witness ==
    /\ \A s \in ServerStoppers : pspc[s] = "returned" /\ spc[s] = "returned"
    /\ plast.ran
    /\ \E e \in Entries : heap[e].destroys = 1

\* ---- the generation loop of predictCmd.Do ----

\* the budget of the request has reached the generation loop
InLoop == dpc \in {"loop", "Sample", "TokenToPiece", "stream"}
ReachedLoop == InLoop \/ (dpc = "returned" /\ inputTokensCount > 0 /\ args.NPredict >= 0)

\* the pieces of the tokens 1..n, in order
Pieces(n) == [i \in 1..n |-> i]

\* C24: for every budget that reaches the generation loop, Do neither
\* appends nor streams more tokens than the budget, and makes no further
\* Decode call once the number of generated tokens has reached it.
C24_BoundedByBudget ==
    ReachedLoop =>
        /\ generatedTokens <= args.NPredict
        /\ Len(response) <= args.NPredict
        /\ Len(sent) <= args.NPredict
        /\ dpc # "loop" => decodes <= args.NPredict

\* C25: when the vocabulary reports end-of-generation on the k-th sampled
\* token, k within the budget, Do returns after exactly k Sample calls with a
\* nil error and the pieces of the k-1 tokens before it; token k reached
\* neither the sink nor the output.
C25_StopsAtEndOfSequence ==
    (eogAt > 0 /\ eogAt <= args.NPredict) =>
        /\ dpc = "returned"
        /\ samples = eogAt
        /\ result = [text |-> Pieces(eogAt - 1), err |-> DoOk]
        /\ response = Pieces(eogAt - 1)
        /\ sent = IF req.Stream THEN Pieces(eogAt - 1) ELSE <<>>

\* the third sampled token of a streaming request with a budget of three or
\* more was end-of-generation
C25_Witness ==
    /\ dpc = "returned" /\ eogAt = 3 /\ args.NPredict >= 3
    /\ req.Stream /\ sinkCalls = 2

\* C26: when the context runs out of capacity after at least one token has
\* been generated, Do returns the text generated so far with a nil error.
C26_CapacityExhaustionIsPartialSuccess ==
    (dpc = "returned" /\ exhausted # "none" /\ generatedTokens > 0) =>
        result = [text |-> response, err |-> DoOk]

\* a step of Do as the failure of the sink constrains it
AbortsOnSinkFailure ==
    /\ ("sink" \in failures' /\ "sink" \notin failures) =>
          (dpc' = "returned" /\ result'.err = "sink" /\ sent' = sent)
    /\ ("sink" \in failures) =>
          (decodes' = decodes /\ samples' = samples /\ sinkCalls' = sinkCalls /\ sent' = sent)
    /\ IsPrefix(sent, sent')
    /\ \A i, j \in 1..Len(sent') : sent'[i] = sent'[j] => i = j

\* C27: the step in which the sink returns an error is the return of Do
\* with an error, and from then on no Decode, Sample or sink call is made;
\* what the sink accepted is only ever extended, each piece once.
C27_SinkFailureAborts == [][AbortsOnSinkFailure]_vars

\* the sink failed on the third piece after it had accepted two
C27_Witness ==
    /\ dpc = "returned" /\ "sink" \in failures
    /\ sent = Pieces(2) /\ sinkCalls = 3 /\ result.err = "sink"

\* C28: whenever a call failed while the request was served, the request
\* returns an error.
C28_EveryFailureReturned ==
    (dpc = "returned" /\ failures # {}) => result.err # DoOk

\* ---- the sampler chain of predictCmd.Do ----

StageOrder == <<"penalties", "top-k", "top-p", "min-p", "temp", "dist">>

\* the threshold of a stage enables it
StageEnabled(stage) ==
    CASE stage = "penalties" -> PenaltiesEnabled(args)
      [] stage = "top-k" -> TopKEnabled(args)
      [] stage = "top-p" -> TopPEnabled(args)
      [] stage = "min-p" -> MinPEnabled(args)
      [] stage = "temp" -> TempEnabled(args)
      [] stage = "dist" -> TRUE

\* Do has built its sampler chain
ChainBuilt == dpc = "Tokenize" \/ ReachedLoop

\* C30: the sampler chain Do has built holds, in the fixed order, exactly
\* the stages whose thresholds enable them, the distribution sampler last.
C30_ChainMatchesThresholds ==
    ChainBuilt =>
        /\ chain = SelectSeq(StageOrder, StageEnabled)
        /\ chain[Len(chain)] = "dist"

\* ---- Destroy failures during Stop ----

\* C29: once the Stop call that captured the entries has returned, every
\* entry that held a model is cleared, whether the model's Destroy failed,
\* succeeded or does not exist: Destroy was called once on every model that
\* has it, also on those visited after a failure, and never on one without.
C29_DestroyFailureTolerated ==
    \A s \in Stoppers :
        (spc[s] = "returned" /\ captures[s] # NoCapture) =>
            \A e \in Entries :
                /\ heap[e].out \in {"destroyable", "plain"} =>
                     heap[e].Model = NilModel /\ heap[e].Err = NoErr /\ heap[e].Progresses = <<>>
                /\ heap[e].out = "destroyable" => heap[e].destroys = 1
                /\ heap[e].out # "destroyable" => heap[e].destroys = 0 /\ ~heap[e].destroyFailed

\* Stop has returned after the Destroy of the first model it captured had
\* failed, that of the second had succeeded and a model without Destroy had
\* been cleared
C29_Witness ==
    /\ \E s \in Stoppers : spc[s] = "returned" /\ captures[s] = 2
    /\ \E e, f \in Entries :
         /\ heap[e].destroyFailed /\ heap[e].Model = NilModel
         /\ heap[f].out \in {"destroyable", "plain"} /\ ~heap[f].destroyFailed
         /\ heap[f].Model = NilModel /\ e # f

\* ---- the in-flight count of the predictions manager ----

\* the Predict calls admitted and not yet returned
Admitted == {p \in Predictors : ppc[p] = "predictFunc"}

\* a step in which a Predict call is turned away
RejectedLeavesCount ==
    \A p \in Predictors :
        (ppc[p] = "initiatePrediction" /\ ppc'[p] = "idle") => (wg' = wg /\ closed' = closed)

\* C37: the count of m.wg always equals the number of Predict calls admitted
\* and not yet returned, whatever the predict function returned, and a
\* Predict call that is turned away changes neither the count nor m.closed.
C37_CountIsAdmittedNotReturned ==
    /\ [](wg = Cardinality(Admitted))
    /\ [][RejectedLeavesCount]_vars

\* a prediction has failed and returned while two others run
C37_Witness ==
    /\ plast.ran /\ plast.err # NoErr
    /\ Cardinality(Admitted) = 2 /\ wg = 2

\* ---- what the sink of predictCmd.Do has seen ----

\* C38: when Do returns a nil error to a request that streams, the text it
\* returns is the sequence of the pieces the sink was called with, the sink
\* was called once per generated token, and the token count passed to the
\* i-th call is the number of prompt tokens plus i - 1.
C38_TextIsWhatTheSinkSaw ==
    (dpc = "returned" /\ result.err = DoOk /\ req.Stream) =>
        /\ result.text = sent
        /\ sinkCalls = generatedTokens /\ Len(sent) = generatedTokens
        /\ sinkTokens = [i \in 1..generatedTokens |-> inputTokensCount + i - 1]

\* a streaming request has returned three tokens for a prompt of two
C38_Witness ==
    /\ dpc = "returned" /\ result.err = DoOk /\ req.Stream
    /\ generatedTokens = 3 /\ inputTokensCount = 2 /\ sinkTokens = <<2, 3, 4>>

\* ---- a Stop call beside the one that closes the manager ----

\* C34: when any modelManager.Stop call has returned, be it the one that
\* flipped m.Closed or another, no construction is in flight and every model
\* with the Destroy capability that a construction produced has been
\* destroyed and cleared.
C34_EveryStopReturnsTornDown ==
    \A s \in Stoppers :
        spc[s] = "returned" =>
            \A e \in Entries :
                /\ ~InFlight(e)
                /\ heap[e].Model = NilModel
                /\ heap[e].out = "destroyable" => heap[e].destroys = 1

\* a Stop call begun on a closed manager returns in that step and touches no entry
LateStopIsNoOp ==
    \A s \in Stoppers :
        (spc[s] = "idle" /\ spc'[s] # "idle" /\ Closed) =>
            /\ spc'[s] = "returned"
            /\ modelStates'[s] = {} /\ captures'[s] = NoCapture
            /\ heap' = heap /\ ModelStates' = ModelStates

\* C34 (amended): when the Stop call that flipped m.Closed has returned, no
\* construction is in flight and every captured model has been destroyed and
\* cleared; any other Stop call is a no-op that returns at once, whether or
\* not the teardown of the first has finished.
C34_FlippingStopTearsDownOthersNoOp ==
    /\ [](\A s \in Stoppers :
            (spc[s] = "returned" /\ captures[s] # NoCapture) =>
                \A e \in Entries :
                    /\ ~InFlight(e)
                    /\ heap[e].out \in {"destroyable", "plain"} => heap[e].Model = NilModel
                    /\ heap[e].out = "destroyable" => heap[e].destroys = 1)
    /\ [][LateStopIsNoOp]_vars

\* a second Stop has returned while the first still waits for a construction
C34_Witness ==
    /\ \E s, u \in Stoppers :
         /\ spc[s] = "returned" /\ captures[s] = NoCapture
         /\ spc[u] = "loop" /\ captures[u] = 1
    /\ \E e \in Entries : InFlight(e)

\* ---- termination of LoadModel ----

\* a call that has invoked the loader only goes on to store the result and
\* return: it never comes back to initiateLoad, so it invokes the loader once
LoaderInvokedOncePerCall ==
    \A t \in Callers :
        /\ pc[t] = "loading" => pc'[t] \in {"loading", "return"} /\ state'[t] = state[t]
        /\ pc[t] = "return" => pc'[t] \in {"return", "idle"}
        /\ (pc'[t] = "loading" /\ pc[t] # "loading") =>
              (pc[t] = "initiateLoad" /\ Len(heap') = Len(heap) + 1)

\* C35: every LoadModel call that has begun returns, given that every
\* loader invocation returns, also when it retries after cached failures and
\* when every loader invocation fails; and a call invokes the loader at most
\* once itself.
C35_LoadModelReturns ==
    /\ \A t \in Callers : (pc[t] # "idle") ~> (pc[t] = "idle")
    /\ [][LoaderInvokedOncePerCall]_vars

\* a call found the failed entry of an earlier call, retried, invoked the
\* loader itself, which failed again, and returned that error
C35_Witness ==
    /\ Len(heap) = 2 /\ heap[1].key = heap[2].key
    /\ heap[1].out = "err" /\ heap[2].out = "err"
    /\ last.op = "LoadModel" /\ last.res.err = 2 /\ last.stale = {1}
    /\ \A t \in Callers : pc[t] = "idle"

\* ---- predictions and the destruction of models in LLMServer.Stop ----

\* a Predict call that reaches initiatePrediction once m.closed is set is
\* turned away; the predict function is not invoked
RejectedOnceClosing ==
    \A p \in Predictors :
        (closed /\ ppc[p] = "initiatePrediction") => ppc'[p] \in {"initiatePrediction", "idle"}

C33_NoSinkCalledAfterReturn == lateSinks = {}

\* ---- the order of the mutexes ----

\* a step in which a goroutine takes m.Mx finds it holding no mutex, and one
\* in which it takes a state.Mx finds it holding no other state.Mx
LockOrder ==
    \A g \in Lockers :
        /\ (mx' = g /\ mx # g) => HeldStates(g) = {}
        /\ \A e \in DOMAIN lkHeap : (lkHeap'[e].Mx = g /\ lkHeap[e].Mx # g) => HeldStates(g) = {}

\* no mutex is held by a goroutine that is in the loader, in a sink, or
\* waiting on a Wg
NoMutexWhileOutside ==
    \A g \in Lockers :
        (Depth(g) > 0 /\ Top(g).pc \in {"loader", "sink", "Wg.Wait", "Stop.Wait"}) =>
            (~HoldsMx(g) /\ HeldStates(g) = {})

\* C36: m.Mx is never taken by a goroutine that holds a state.Mx, no mutex
\* is held while the loader or a sink runs, and every call that has begun
\* returns, also the calls a sink makes to GetModel or LoadModel.
C36_LockOrderNoDeadlock ==
    /\ [][LockOrder]_vars
    /\ []NoMutexWhileOutside
    /\ \A g \in Lockers : (Depth(g) > 0) ~> (Depth(g) = 0)

\* a sink invoked by a loader is inside GetModel, holding m.Mx and about to
\* take the mutex of the entry under construction, while another goroutine
\* is about to take m.Mx
C36_Witness ==
    \E g, u \in Lockers :
        /\ Depth(g) = 2 /\ Top(g).pc = "GetModel.getModel" /\ HoldsMx(g)
        /\ stack[g][1].pc = "sink" /\ Top(g).state = stack[g][1].state
        /\ Depth(u) = 1 /\ Top(u).pc \in {"initiateLoad", "GetModel", "cancelLoads"}

\* ---- stopping the monitor of the child process ----

\* once a Stop call has returned the loop has exited and no child runs
StoppedMeansExited ==
    StopReturned => (lpc = "exited" /\ monWg = 0 /\ child = "none" /\ ~startedAfterStop)

\* once a Stop call has returned no step starts a child
NoStartAfterStop == StopReturned => (starts' = starts /\ child' = child /\ lpc' = lpc)

\* C31: after a Stop call has returned the monitor loop has exited, wherever
\* the cancellation found it, and no child process is started any more; every
\* Stop call that has begun returns, however many run concurrently.
C31_StopIsSafeAndFinal ==
    /\ []StoppedMeansExited
    /\ [][NoStartAfterStop]_vars
    /\ \A s \in MonStoppers : (mspc[s] = "wg.Wait") ~> (mspc[s] = "returned")

\* every one of the concurrent Stop calls has returned, and the cancellation
\* found the loop waiting for a running child after an earlier iteration
C31_Witness ==
    /\ \A s \in MonStoppers : mspc[s] = "returned"
    /\ cancelledAt = "cmd.Wait"
    /\ starts >= 2
====
